---- MODULE Spec2Model ----
(***************************************************************************)
(* Model of polliard/gitignore: the section editor of pkg/gitignore        *)
(* (Manager) and the source resolver of pkg/source (SourceManager).        *)
(*                                                                         *)
(* A Go string is modelled as a sequence of one-character strings, so that *)
(* strings.Contains, strings.TrimSpace, bufio.ScanLines and the marker     *)
(* formatting are computed character by character as the code does.        *)
(***************************************************************************)
EXTENDS Integers, Sequences, FiniteSets, TLC

VARIABLES
    exists,     \* whether the ignore file is present on disk
    data,       \* the bytes of the ignore file (meaningful when exists)
    last,       \* the last Manager call: its arguments and what it returned
    live,       \* history: the sections added by Add and not deleted since
    phase,      \* history: "adding", "deleting" or "mixed" (see Track)
    sources,    \* SourceManager.sources: the configured source names in order
    smLast,     \* the last SourceManager call: its outcome and query log
    world,      \* what each source holds and how its requests end (lookups)
    client,     \* the github.Client: whether it was created, owner, repo, branch
    clLast,     \* the last call on the github.Client: its outcome and request log
    dir,        \* the directory of the LocalSource
    lsLast,     \* the last LocalSource call and what it returned
    procs,      \* the processes editing the file at once: position and locals
    lost,       \* history: a write of a process removed a section of the file
    cmdLast     \* the last command run: its arguments and what it reported

vars == <<exists, data, last, live, phase, sources, smLast, world, client, clLast, dir, lsLast,
          procs, lost, cmdLast>>

editorVars == <<exists, data, last, live, phase>>
resolverVars == <<sources, smLast, world>>
clientVars == <<client, clLast>>
localVars == <<dir, lsLast>>
procVars == <<procs, lost>>
cmdVars == <<cmdLast>>

-----------------------------------------------------------------------------
(* Bounds of the model.                                                     *)

\* Add and AddPatterns are enabled while fewer sections than this are live.
MaxSections == 2

-----------------------------------------------------------------------------
(* Go's strings package, on sequences of characters.                        *)

\* unicode.IsSpace restricted to the ASCII characters of the model
WhiteSpace == {" ", "\t", "\n", "\r"}

\* the cutset of strings.TrimRight(result.String(), "\n\t ") in Delete
DeleteCutset == {"\n", "\t", " "}

\* the index of the first character of s, from i on, that is not in cutset
RECURSIVE SkipLeft(_, _, _)
SkipLeft(s, i, cutset) ==
    IF i <= Len(s) /\ s[i] \in cutset THEN SkipLeft(s, i + 1, cutset) ELSE i

\* the index of the last character of s, up to i, that is not in cutset
RECURSIVE SkipRight(_, _, _)
SkipRight(s, i, cutset) ==
    IF i >= 1 /\ s[i] \in cutset THEN SkipRight(s, i - 1, cutset) ELSE i

TrimLeft(s, cutset) == SubSeq(s, SkipLeft(s, 1, cutset), Len(s))

TrimRight(s, cutset) == SubSeq(s, 1, SkipRight(s, Len(s), cutset))

TrimSpace(s) ==
    SubSeq(s, SkipLeft(s, 1, WhiteSpace), SkipRight(s, Len(s), WhiteSpace))

\* substr occurs in s at index i
At(s, i, substr) == \A j \in 1..Len(substr) : s[i + j - 1] = substr[j]

HasPrefix(s, prefix) == Len(s) >= Len(prefix) /\ At(s, 1, prefix)

HasSuffix(s, suffix) ==
    Len(s) >= Len(suffix) /\ At(s, Len(s) - Len(suffix) + 1, suffix)

Contains(s, substr) == \E i \in 1..(Len(s) - Len(substr) + 1) : At(s, i, substr)

TrimPrefix(s, prefix) ==
    IF HasPrefix(s, prefix) THEN SubSeq(s, Len(prefix) + 1, Len(s)) ELSE s

TrimSuffix(s, suffix) ==
    IF HasSuffix(s, suffix) THEN SubSeq(s, 1, Len(s) - Len(suffix)) ELSE s

\* strings.Trim(s, cutset)
Trim(s, cutset) ==
    SubSeq(s, SkipLeft(s, 1, cutset), SkipRight(s, Len(s), cutset))

UpperCase ==
    <<"A", "B", "C", "D", "E", "F", "G", "H", "I", "J", "K", "L", "M",
      "N", "O", "P", "Q", "R", "S", "T", "U", "V", "W", "X", "Y", "Z">>
LowerCase ==
    <<"a", "b", "c", "d", "e", "f", "g", "h", "i", "j", "k", "l", "m",
      "n", "o", "p", "q", "r", "s", "t", "u", "v", "w", "x", "y", "z">>

\* unicode.ToLower on the ASCII characters of the model
ToLowerChar(c) ==
    IF \E i \in 1..Len(UpperCase) : UpperCase[i] = c
    THEN LowerCase[CHOOSE i \in 1..Len(UpperCase) : UpperCase[i] = c]
    ELSE c

ToLower(s) == [i \in 1..Len(s) |-> ToLowerChar(s[i])]

\* the index of the first occurrence of sep in s from start on, 0 if none
Index(s, start, sep) ==
    LET found == { i \in start..(Len(s) - Len(sep) + 1) : At(s, i, sep) }
    IN  IF found = {} THEN 0 ELSE CHOOSE i \in found : \A j \in found : i <= j

\* strings.Split(s, sep) for a non-empty sep, from index start on
RECURSIVE SplitFrom(_, _, _)
SplitFrom(s, start, sep) ==
    IF Index(s, start, sep) = 0
    THEN <<SubSeq(s, start, Len(s))>>
    ELSE <<SubSeq(s, start, Index(s, start, sep) - 1)>>
         \o SplitFrom(s, Index(s, start, sep) + Len(sep), sep)

Split(s, sep) == SplitFrom(s, 1, sep)

\* strings.Join(parts, sep)
RECURSIVE JoinWith(_, _)
JoinWith(parts, sep) ==
    IF parts = <<>>
    THEN <<>>
    ELSE IF Len(parts) = 1
         THEN parts[1]
         ELSE parts[1] \o sep \o JoinWith(Tail(parts), sep)

\* bufio.ScanLines: a line ends at "\n"; one trailing "\r" is dropped
DropCR(line) ==
    IF line # <<>> /\ line[Len(line)] = "\r"
    THEN SubSeq(line, 1, Len(line) - 1)
    ELSE line

\* the index of the first "\n" of s from start on, Len(s) + 1 if there is none
LineEnd(s, start) ==
    LET newlines == { i \in start..Len(s) : s[i] = "\n" }
    IN  IF newlines = {}
        THEN Len(s) + 1
        ELSE CHOOSE i \in newlines : \A j \in newlines : i <= j

\* bufio.Scanner over the content: the sequence of scanner.Text() values
\* from the line that starts at index start on. A final line without "\n"
\* is returned when it is non-empty.
RECURSIVE ScanFrom(_, _)
ScanFrom(s, start) ==
    IF start > Len(s)
    THEN <<>>
    ELSE <<DropCR(SubSeq(s, start, LineEnd(s, start) - 1))>>
         \o ScanFrom(s, LineEnd(s, start) + 1)

ScanLines(s) == ScanFrom(s, 1)

-----------------------------------------------------------------------------
(* Constants of package gitignore.                                          *)

SectionStartPrefix == <<"#", "#", "#", " ", "S", "T", "A", "R", "T", ":">>
SectionEndPrefix == <<"#", "#", "#", " ", "E", "N", "D", ":">>
IgnoredSectionPrefix == <<"i", "g", "n", "o", "r", "e", "d", "/">>

\* fmt.Sprintf("%s %s", prefix, sectionName)
StartMarker(sectionName) == SectionStartPrefix \o <<" ">> \o sectionName
EndMarker(sectionName) == SectionEndPrefix \o <<" ">> \o sectionName

-----------------------------------------------------------------------------
(* Manager: the section editor (src/pkg/gitignore/manager.go).              *)

\* Manager.Read: an absent file reads as the empty string, without error
Read == IF exists THEN data ELSE <<>>

\* HasSection with the marker formatted without the separating space
HasSectionNoSpace(content, sectionName) ==
    Contains(content, SectionStartPrefix \o sectionName)

\* Manager.HasSection on the content it read
HasSection(content, sectionName) == Contains(content, StartMarker(sectionName))

\* the builder of Add without the HasSuffix test on the current content
AddBuildNoNewlineCheck(currentContent, sectionName, content) ==
    LET sep == IF currentContent # <<>> THEN currentContent \o <<"\n">> ELSE <<>>
        trimmed == TrimSpace(content)
    IN  sep
        \o StartMarker(sectionName) \o <<"\n">>
        \o trimmed
        \o (IF ~HasSuffix(trimmed, <<"\n">>) THEN <<"\n">> ELSE <<>>)
        \o EndMarker(sectionName) \o <<"\n">>

\* the strings.Builder of Manager.Add
AddBuild(currentContent, sectionName, content) ==
    LET sep == IF currentContent # <<>>
               THEN currentContent
                    \o (IF ~HasSuffix(currentContent, <<"\n">>) THEN <<"\n">> ELSE <<>>)
                    \o <<"\n">>
               ELSE <<>>
        trimmed == TrimSpace(content)
    IN  sep
        \o StartMarker(sectionName) \o <<"\n">>
        \o trimmed
        \o (IF ~HasSuffix(trimmed, <<"\n">>) THEN <<"\n">> ELSE <<>>)
        \o EndMarker(sectionName) \o <<"\n">>

\* Manager.Add: the error it returns, the content it leaves, its file accesses
Add(currentContent, sectionName, content) ==
    IF HasSection(currentContent, sectionName)
    THEN [err |-> "exists", out |-> currentContent, reads |-> 1, writes |-> 0]
    ELSE [err |-> "nil", out |-> AddBuild(currentContent, sectionName, content),
          reads |-> 2, writes |-> 1]

\* one iteration of the scanner loop of Manager.Delete
DeleteStep(st, line, startMarker, endMarker) ==
    IF TrimSpace(line) = startMarker
    THEN [st EXCEPT !.inSection = TRUE, !.foundSection = TRUE]
    ELSE IF TrimSpace(line) = endMarker
    THEN [st EXCEPT !.inSection = FALSE]
    ELSE IF ~st.inSection
    THEN IF TrimSpace(line) = <<>>
         THEN IF st.prevLineEmpty
              THEN st
              ELSE [st EXCEPT !.prevLineEmpty = TRUE,
                              !.result = st.result \o line \o <<"\n">>]
         ELSE [st EXCEPT !.prevLineEmpty = FALSE,
                         !.result = st.result \o line \o <<"\n">>]
    ELSE st

RECURSIVE DeleteLoop(_, _, _, _, _)
DeleteLoop(lines, i, st, startMarker, endMarker) ==
    IF i > Len(lines)
    THEN st
    ELSE DeleteLoop(lines, i + 1,
                    DeleteStep(st, lines[i], startMarker, endMarker),
                    startMarker, endMarker)

\* Delete without the foundSection check before the write
DeleteNoFoundCheck(content, sectionName) ==
    IF content = <<>>
    THEN [err |-> "notfound", out |-> content, reads |-> 1, writes |-> 0]
    ELSE LET st == DeleteLoop(ScanLines(content), 1,
                              [inSection |-> FALSE, foundSection |-> FALSE,
                               prevLineEmpty |-> FALSE, result |-> <<>>],
                              StartMarker(sectionName), EndMarker(sectionName))
             trimmed == TrimRight(st.result, DeleteCutset)
             finalContent == IF trimmed # <<>> THEN trimmed \o <<"\n">> ELSE trimmed
         IN  [err |-> IF st.foundSection THEN "nil" ELSE "notfound",
              out |-> finalContent, reads |-> 1, writes |-> 1]

\* Manager.Delete: the error it returns, the content it leaves, its file
\* accesses. scanner.Err() is nil: no line of the model reaches
\* bufio.MaxScanTokenSize.
Delete(content, sectionName) ==
    IF content = <<>>
    THEN [err |-> "notfound", out |-> content, reads |-> 1, writes |-> 0]
    ELSE LET st == DeleteLoop(ScanLines(content), 1,
                              [inSection |-> FALSE, foundSection |-> FALSE,
                               prevLineEmpty |-> FALSE, result |-> <<>>],
                              StartMarker(sectionName), EndMarker(sectionName))
             trimmed == TrimRight(st.result, DeleteCutset)
             finalContent == IF trimmed # <<>> THEN trimmed \o <<"\n">> ELSE trimmed
         IN  IF ~st.foundSection
             THEN [err |-> "notfound", out |-> content, reads |-> 1, writes |-> 0]
             ELSE [err |-> "nil", out |-> finalContent, reads |-> 1, writes |-> 1]

\* Manager.ListSections
RECURSIVE ListLoop(_, _)
ListLoop(lines, i) ==
    IF i > Len(lines)
    THEN <<>>
    ELSE LET line == TrimSpace(lines[i])
         IN  (IF HasPrefix(line, SectionStartPrefix)
              THEN <<TrimSpace(TrimPrefix(line, SectionStartPrefix))>>
              ELSE <<>>)
             \o ListLoop(lines, i + 1)

ListSections(content) == ListLoop(ScanLines(content), 1)

\* the loop of Manager.AddPatterns from pattern i on; st carries the file
\* content and the named results added, skipped and err
RECURSIVE AddPatternsLoop(_, _, _)
AddPatternsLoop(patterns, i, st) ==
    IF i > Len(patterns)
    THEN st
    ELSE LET pattern == TrimSpace(patterns[i])
             sectionName == IgnoredSectionPrefix \o pattern
         IN  IF pattern = <<>>
             THEN AddPatternsLoop(patterns, i + 1, st)
             ELSE IF HasSection(st.out, sectionName)
             THEN AddPatternsLoop(patterns, i + 1,
                      [st EXCEPT !.skipped = Append(st.skipped, pattern),
                                 !.reads = st.reads + 1])
             ELSE LET r == Add(st.out, sectionName, pattern)
                  IN  IF r.err # "nil"
                      THEN [st EXCEPT !.err = r.err,
                                      !.reads = st.reads + 1 + r.reads]
                      ELSE AddPatternsLoop(patterns, i + 1,
                               [st EXCEPT !.out = r.out,
                                          !.added = Append(st.added, pattern),
                                          !.reads = st.reads + 1 + r.reads,
                                          !.writes = st.writes + r.writes])

AddPatterns(currentContent, patterns) ==
    AddPatternsLoop(patterns, 1,
        [err |-> "nil", out |-> currentContent, added |-> <<>>, skipped |-> <<>>,
         reads |-> 0, writes |-> 0])

\* RemovePattern naming the section after the untrimmed pattern
RemovePatternNoTrim(currentContent, pattern) ==
    IF TrimSpace(pattern) = <<>>
    THEN [err |-> "empty", out |-> currentContent, reads |-> 0, writes |-> 0]
    ELSE Delete(currentContent, IgnoredSectionPrefix \o pattern)

\* Manager.RemovePattern
RemovePattern(currentContent, pattern) ==
    LET trimmed == TrimSpace(pattern)
    IN  IF trimmed = <<>>
        THEN [err |-> "empty", out |-> currentContent, reads |-> 0, writes |-> 0]
        ELSE Delete(currentContent, IgnoredSectionPrefix \o trimmed)

-----------------------------------------------------------------------------
(* The inputs the model draws the arguments and the initial file from.      *)

\* section names: two names of which one is a prefix of the other, and the
\* empty name
Names == { <<"G", "o">>, <<"G", "o", "l", "a", "n", "g">>, <<>> }

\* section contents: a one-line template, and a template with surrounding
\* whitespace and a run of blank lines inside
Contents == { <<"a", "\n">>, <<" ", "a", "\n", "\n", "\n", "b", " ", "\n">> }

\* arguments of RemovePattern: a pattern, a pattern it is a prefix of (with
\* surrounding whitespace), and a blank one
Patterns == { <<"a">>, <<" ", "a", "b", " ">>, <<" ">> }

\* argument lists of AddPatterns
PatternLists == { <<<<"a", "b">>>>, <<<<>>, <<" ">>, <<"a">>>>, <<<<"a">>, <<" ", "a", " ">>, <<"a", "b">>>> }

\* ignore files found on disk at start: absent (see Init), empty, without a
\* final newline, one with blank-line runs and trailing whitespace, and one
\* holding a hand-indented Go section followed by a blank line
InitialFiles ==
    { <<>>,
      <<"t">>,
      <<"t", "\n", "\n", "\n", "u", " ", "\n", "\n">>,
      <<" ", " ", "#", "#", "#", " ", "S", "T", "A", "R", "T", ":", " ", "G", "o", "\n", "z", "\n", "#", "#", "#", " ", "E", "N", "D", ":", " ", "G", "o", "\n", "\n">> }

NoAdd == [valid |-> FALSE, before |-> <<>>]

\* no github.Client was created
NoClient == [created |-> FALSE, owner |-> <<>>, repo |-> <<>>, branch |-> <<>>]

\* the directory of the LocalSource does not exist
NoDir == [state |-> "missing", entries |-> <<>>]

\* no process is editing the file
NoProcs == <<>>

\* the record of a Manager call that is not a pattern call; prevAdd is the
\* file before the successful Add of the same section that came just before,
\* wasLive tells whether the section was added by Add and not deleted since
Call(op, sectionName, content, r, has, prevAdd) ==
    [op |-> op, name |-> sectionName, content |-> content, patterns |-> <<>>,
     err |-> r.err, before |-> Read, existed |-> exists,
     reads |-> r.reads, writes |-> r.writes, has |-> has,
     added |-> <<>>, skipped |-> <<>>, prevAdd |-> prevAdd,
     wasLive |-> \E i \in 1..Len(live) : live[i].name = sectionName]

\* os.WriteFile when the call wrote, nothing otherwise
Write(r) ==
    IF r.writes > 0
    THEN exists' = TRUE /\ data' = r.out
    ELSE UNCHANGED <<exists, data>>

\* the entries of the history live, without those of the given name
RECURSIVE Without(_, _)
Without(entries, sectionName) ==
    IF entries = <<>>
    THEN <<>>
    ELSE (IF Head(entries).name = sectionName THEN <<>> ELSE <<Head(entries)>>)
         \o Without(Tail(entries), sectionName)

Init ==
    /\ exists \in BOOLEAN
    /\ data \in (IF exists THEN InitialFiles ELSE {<<>>})
    /\ last = [op |-> "none", name |-> <<>>, content |-> <<>>, patterns |-> <<>>,
               err |-> "nil", before |-> <<>>, existed |-> FALSE,
               reads |-> 0, writes |-> 0, has |-> FALSE,
               added |-> <<>>, skipped |-> <<>>, prevAdd |-> NoAdd, wasLive |-> FALSE]
    /\ live = <<>>
    /\ phase = (IF data = <<>> THEN "adding" ELSE "mixed")
    /\ sources = <<"local", "github">>
    /\ smLast = [op |-> "none"]
    /\ world = <<>>
    /\ client = NoClient
    /\ clLast = [op |-> "none"]
    /\ dir = NoDir
    /\ lsLast = [op |-> "none"]
    /\ procs = NoProcs
    /\ lost = FALSE
    /\ cmdLast = [op |-> "none"]

HasSectionCall(sectionName) ==
    /\ last' = Call("HasSection", sectionName, <<>>,
                    [err |-> "nil", reads |-> 1, writes |-> 0],
                    HasSection(Read, sectionName), NoAdd)
    /\ UNCHANGED <<exists, data, live, phase, resolverVars, clientVars, localVars, procVars, cmdVars>>

AddCall(sectionName, content) ==
    /\ Len(live) < MaxSections
    /\ \E r \in {Add(Read, sectionName, content)} :
           /\ Write(r)
           /\ last' = Call("Add", sectionName, content, r, FALSE, NoAdd)
           /\ live' = IF r.err = "nil"
                      THEN Append(live, [name |-> sectionName, content |-> content])
                      ELSE live
           /\ phase' = IF phase = "adding" THEN "adding" ELSE "mixed"
    /\ UNCHANGED <<resolverVars, clientVars, localVars, procVars, cmdVars>>

DeleteCall(sectionName) ==
    /\ \E r \in {Delete(Read, sectionName)} :
           /\ Write(r)
           /\ last' = Call("Delete", sectionName, <<>>, r, FALSE,
                           IF last.op = "Add" /\ last.err = "nil"
                              /\ last.name = sectionName
                           THEN [valid |-> TRUE, before |-> last.before]
                           ELSE NoAdd)
           /\ live' = IF r.err = "nil" THEN Without(live, sectionName) ELSE live
           /\ phase' = IF phase \in {"adding", "deleting"} THEN "deleting" ELSE "mixed"
    /\ UNCHANGED <<resolverVars, clientVars, localVars, procVars, cmdVars>>

\* the record of a Manager pattern call
PatternCall(op, patterns, r, added, skipped) ==
    [op |-> op, name |-> <<>>, content |-> <<>>, patterns |-> patterns,
     err |-> r.err, before |-> Read, existed |-> exists,
     reads |-> r.reads, writes |-> r.writes, has |-> FALSE,
     added |-> added, skipped |-> skipped, prevAdd |-> NoAdd, wasLive |-> FALSE]

\* the history entries of the sections AddPatterns added
LiveOf(added) ==
    [i \in 1..Len(added) |->
        [name |-> IgnoredSectionPrefix \o added[i], content |-> added[i]]]

AddPatternsCall(patterns) ==
    /\ Len(live) < MaxSections
    /\ \E r \in {AddPatterns(Read, patterns)} :
           /\ Write(r)
           /\ last' = PatternCall("AddPatterns", patterns, r, r.added, r.skipped)
           /\ live' = live \o LiveOf(r.added)
    /\ phase' = "mixed"
    /\ UNCHANGED <<resolverVars, clientVars, localVars, procVars, cmdVars>>

RemovePatternCall(pattern) ==
    /\ \E r \in {RemovePattern(Read, pattern)} :
           /\ Write(r)
           /\ last' = PatternCall("RemovePattern", <<pattern>>, r, <<>>, <<>>)
           /\ live' = IF r.err = "nil"
                      THEN Without(live, IgnoredSectionPrefix \o TrimSpace(pattern))
                      ELSE live
    /\ phase' = "mixed"
    /\ UNCHANGED <<resolverVars, clientVars, localVars, procVars, cmdVars>>

Next ==
    \/ \E sectionName \in Names : HasSectionCall(sectionName)
    \/ \E sectionName \in Names, content \in Contents : AddCall(sectionName, content)
    \/ \E sectionName \in Names : DeleteCall(sectionName)
    \/ \E patterns \in PatternLists : AddPatternsCall(patterns)
    \/ \E pattern \in Patterns : RemovePatternCall(pattern)

Spec == Init /\ [][Next]_vars

-----------------------------------------------------------------------------
(* SourceManager: the source resolver (pkg/source).                         *)

\* Source.Name() of the three implementations
LocalName == "local"
GitHubName == "github"
ToptalName == "toptal"

\* NewSourceManager: local first, then GitHub, then Toptal if enabled
NewSourceManager(enableToptal) ==
    <<LocalName, GitHubName>> \o (IF enableToptal THEN <<ToptalName>> ELSE <<>>)

\* the template names a source may hold, in the order it lists them: none,
\* "Go", or "go" and "Rust" (two of the names differ in case only)
TemplateLists ==
    { <<>>, <<<<"G", "o">>>>, <<<<"g", "o">>, <<"R", "u", "s", "t">>>> }

\* the []TemplateFile a source returns for a list of names
FilesOf(source, names) ==
    [i \in 1..Len(names) |->
        [Name |-> names[i], Path |-> names[i], Category |-> <<>>, Source |-> source]]

\* what Source.List() of a source can return: its files and a nil error, or
\* nil files and an error
ListOutcomes(source) ==
    { [files |-> FilesOf(source, names), err |-> "nil"] : names \in TemplateLists }
    \cup { [files |-> <<>>, err |-> e] : e \in {"transport error", "status error"} }

SourceSet == { sources[i] : i \in 1..Len(sources) }

\* what the List() of every configured source returns during one call
ListEnvs ==
    { env \in [SourceSet -> UNION { ListOutcomes(s) : s \in SourceSet }] :
        \A s \in SourceSet : env[s] \in ListOutcomes(s) }

\* the loop of ListBySource leaving at the first source whose List() fails
RECURSIVE ListBySourceLoopStopOnError(_, _, _, _)
ListBySourceLoopStopOnError(srcs, i, env, st) ==
    IF i > Len(srcs)
    THEN st
    ELSE LET source == srcs[i]
             listed == env[source]
         IN  IF listed.err # "nil"
             THEN [result |-> (source :> [Files |-> <<>>, Error |-> listed.err])
                              @@ st.result,
                   queried |-> Append(st.queried, source)]
             ELSE ListBySourceLoopStopOnError(srcs, i + 1, env,
                      [result |-> (source :> [Files |-> listed.files, Error |-> "nil"])
                                  @@ st.result,
                       queried |-> Append(st.queried, source)])

\* the loop of SourceManager.ListBySource from source i on; st carries the
\* result map and the log of the sources whose List() was called
RECURSIVE ListBySourceLoop(_, _, _, _)
ListBySourceLoop(srcs, i, env, st) ==
    IF i > Len(srcs)
    THEN st
    ELSE LET source == srcs[i]
             listed == env[source]
             entry == IF listed.err # "nil"
                      THEN [Files |-> <<>>, Error |-> listed.err]
                      ELSE [Files |-> listed.files, Error |-> "nil"]
         IN  ListBySourceLoop(srcs, i + 1, env,
                 [result |-> (source :> entry) @@ st.result,
                  queried |-> Append(st.queried, source)])

\* SourceManager.ListBySource: the map and the error it returns
ListBySource(srcs, env) ==
    LET st == ListBySourceLoop(srcs, 1, env, [result |-> <<>>, queried |-> <<>>])
    IN  [result |-> st.result, err |-> "nil", queried |-> st.queried]

InitResolver ==
    /\ exists = FALSE
    /\ data = <<>>
    /\ last = [op |-> "none", name |-> <<>>, content |-> <<>>, patterns |-> <<>>,
               err |-> "nil", before |-> <<>>, existed |-> FALSE,
               reads |-> 0, writes |-> 0, has |-> FALSE,
               added |-> <<>>, skipped |-> <<>>, prevAdd |-> NoAdd, wasLive |-> FALSE]
    /\ live = <<>>
    /\ phase = "adding"
    /\ \E enableToptal \in BOOLEAN : sources = NewSourceManager(enableToptal)
    /\ smLast = [op |-> "none"]
    /\ world = <<>>
    /\ client = NoClient
    /\ clLast = [op |-> "none"]
    /\ dir = NoDir
    /\ lsLast = [op |-> "none"]
    /\ procs = NoProcs
    /\ lost = FALSE
    /\ cmdLast = [op |-> "none"]

ListBySourceCall ==
    /\ \E env \in ListEnvs :
         \E r \in {ListBySource(sources, env)} :
            smLast' = [op |-> "ListBySource", env |-> env, result |-> r.result,
                       err |-> r.err, queried |-> r.queried]
    /\ UNCHANGED <<sources, world, editorVars, clientVars, localVars, procVars, cmdVars>>

NextResolver ==
    \/ ListBySourceCall

SpecResolver == InitResolver /\ [][NextResolver]_vars

-----------------------------------------------------------------------------
(* SourceManager: the aggregated listing and the lookups. Each source is    *)
(* what its List() returns and how its content request ends.                *)

\* a name in its lower-case form, a name in upper case, and a name no source
\* holds
LookupNames ==
    { <<"g", "o">>, <<"R", "U", "S", "T">>, <<"c">> }

\* how the content request of a source ends
FetchOutcomes == {"nil", "content error"}

\* what a source holds: the outcome of its List() and of its content request
SourceStates(source) ==
    { [files |-> o.files, err |-> o.err, fetch |-> f] :
        o \in { l \in ListOutcomes(source) : l.err = "nil" }, f \in FetchOutcomes }
    \cup { [files |-> <<>>, err |-> o.err, fetch |-> "nil"] :
             o \in { l \in ListOutcomes(source) : l.err # "nil" } }

\* the worlds of a configuration of sources
Worlds(srcs) ==
    LET names == { srcs[i] : i \in 1..Len(srcs) }
    IN  { w \in [names -> UNION { SourceStates(s) : s \in names }] :
            \A s \in names : w[s] \in SourceStates(s) }

NoFile == [Name |-> <<>>, Path |-> <<>>, Category |-> <<>>, Source |-> ""]

BareName(file) == file.Name

\* fullName in FindGitignoreFile: the category, "/", and the name
FullName(file) ==
    IF file.Category # <<>> THEN file.Category \o <<"/">> \o file.Name ELSE file.Name

\* the first file of files whose name (with its category when withCategory) is nameLower, NoFile if there is none
FirstMatch(files, nameLower, withCategory) ==
    LET Key(file) == IF withCategory THEN FullName(file) ELSE BareName(file)
        found == { i \in 1..Len(files) : ToLower(Key(files[i])) = nameLower }
    IN  IF found = {}
        THEN NoFile
        ELSE files[CHOOSE i \in found : \A j \in found : i <= j]

\* Source.Find of the three sources: List(), then the first file whose name
\* is the wanted one, case-insensitively; the GitHub client then takes the
\* first file whose category/name matches
SourceFind(source, name, st) ==
    IF st.err # "nil"
    THEN [file |-> NoFile, err |-> st.err]
    ELSE LET bare == FirstMatch(st.files, ToLower(name), FALSE)
             full == FirstMatch(st.files, ToLower(name), TRUE)
         IN  IF bare # NoFile
             THEN [file |-> bare, err |-> "nil"]
             ELSE IF source = GitHubName /\ full # NoFile
                  THEN [file |-> full, err |-> "nil"]
                  ELSE [file |-> NoFile, err |-> "not found"]

\* Source.Get of the three sources: Find, then the content request
SourceGet(source, name, st) ==
    LET found == SourceFind(source, name, st)
    IN  IF found.err # "nil"
        THEN [file |-> NoFile, content |-> <<>>, err |-> found.err]
        ELSE IF st.fetch # "nil"
             THEN [file |-> NoFile, content |-> <<>>, err |-> st.fetch]
             ELSE [file |-> found.file, content |-> <<source, found.file.Path>>,
                   err |-> "nil"]

\* a call of Source.Get or Source.Find in the log of a SourceManager call
Query(source, key) == [source |-> source, key |-> key]

\* the loop of List over the remote sources, comparing a remote name as it
\* is spelled with the lower-cased local names
RECURSIVE ListRemotesCaseSensitive(_, _, _, _, _)
ListRemotesCaseSensitive(remote, i, w, localNames, st) ==
    IF i > Len(remote)
    THEN st
    ELSE ListRemotesCaseSensitive(remote, i + 1, w, localNames,
             [allFiles |-> IF w[remote[i]].err # "nil"
                           THEN st.allFiles
                           ELSE st.allFiles
                                \o SelectSeq(w[remote[i]].files,
                                             LAMBDA f : f.Name \notin localNames),
              queried |-> Append(st.queried, remote[i])])

\* the loop of List leaving at the first remote whose List() fails
RECURSIVE ListRemotesStopOnError(_, _, _, _, _)
ListRemotesStopOnError(remote, i, w, localNames, st) ==
    IF i > Len(remote)
    THEN st
    ELSE IF w[remote[i]].err # "nil"
         THEN [st EXCEPT !.queried = Append(st.queried, remote[i])]
         ELSE ListRemotesStopOnError(remote, i + 1, w, localNames,
                  [allFiles |-> st.allFiles
                                \o SelectSeq(w[remote[i]].files,
                                             LAMBDA f : ToLower(f.Name) \notin localNames),
                   queried |-> Append(st.queried, remote[i])])

\* the loop of SourceManager.List over the remote sources from remote i on;
\* st carries allFiles and the log of the sources whose List() was called
RECURSIVE ListRemotes(_, _, _, _, _)
ListRemotes(remote, i, w, localNames, st) ==
    IF i > Len(remote)
    THEN st
    ELSE ListRemotes(remote, i + 1, w, localNames,
             [allFiles |-> IF w[remote[i]].err # "nil"
                           THEN st.allFiles
                           ELSE st.allFiles
                                \o SelectSeq(w[remote[i]].files,
                                             LAMBDA f : ToLower(f.Name) \notin localNames),
              queried |-> Append(st.queried, remote[i])])

\* List going on to the remotes when the local listing fails
ListPastLocalError(srcs, w) ==
    LET local == w[Head(srcs)]
        localNames == { ToLower(local.files[i].Name) : i \in 1..Len(local.files) }
        st == ListRemotes(Tail(srcs), 1, w, localNames,
                          [allFiles |-> local.files, queried |-> <<Head(srcs)>>])
    IN  [files |-> st.allFiles,
         err |-> IF local.err # "nil" THEN "failed to list local templates" ELSE "nil",
         queried |-> st.queried]

\* SourceManager.List: the local templates first, then those of the remotes
\* that no local template shadows
List(srcs, w) ==
    LET local == w[Head(srcs)]
        localNames == { ToLower(local.files[i].Name) : i \in 1..Len(local.files) }
        st == ListRemotes(Tail(srcs), 1, w, localNames,
                          [allFiles |-> local.files, queried |-> <<Head(srcs)>>])
    IN  IF local.err # "nil"
        THEN [files |-> <<>>, err |-> "failed to list local templates",
              queried |-> <<Head(srcs)>>]
        ELSE [files |-> st.allFiles, err |-> "nil", queried |-> st.queried]

\* the loop of Get leaving at the first remote whose Get fails
RECURSIVE GetRemotesStopOnError(_, _, _, _, _)
GetRemotesStopOnError(remote, i, name, w, st) ==
    IF i > Len(remote)
    THEN st
    ELSE LET got == SourceGet(remote[i], name, w[remote[i]])
             queried == Append(st.queried, Query(remote[i], name))
         IN  IF got.err = "nil"
             THEN [file |-> got.file, content |-> got.content, err |-> "nil",
                   lastErr |-> st.lastErr, queried |-> queried]
             ELSE [st EXCEPT !.lastErr = got.err, !.queried = queried]

\* the loop of SourceManager.Get over the remote sources from remote i on;
\* st.err is "none" until a remote succeeds
RECURSIVE GetRemotes(_, _, _, _, _)
GetRemotes(remote, i, name, w, st) ==
    IF i > Len(remote)
    THEN st
    ELSE LET got == SourceGet(remote[i], name, w[remote[i]])
             queried == Append(st.queried, Query(remote[i], name))
         IN  IF got.err = "nil"
             THEN [file |-> got.file, content |-> got.content, err |-> "nil",
                   lastErr |-> st.lastErr, queried |-> queried]
             ELSE GetRemotes(remote, i + 1, name, w,
                      [st EXCEPT !.lastErr = got.err, !.queried = queried])

\* SourceManager.Get: local first, then the remote sources in order
Get(srcs, name, w) ==
    LET got == SourceGet(Head(srcs), name, w[Head(srcs)])
        st == GetRemotes(Tail(srcs), 1, name, w,
                  [file |-> NoFile, content |-> <<>>, err |-> "none",
                   lastErr |-> "nil", queried |-> <<Query(Head(srcs), name)>>])
    IN  IF got.err = "nil"
        THEN [file |-> got.file, content |-> got.content, err |-> "nil",
              queried |-> <<Query(Head(srcs), name)>>]
        ELSE IF st.err = "nil"
             THEN [file |-> st.file, content |-> st.content, err |-> "nil",
                   queried |-> st.queried]
             ELSE [file |-> NoFile, content |-> <<>>,
                   err |-> IF st.lastErr # "nil"
                           THEN "not found in any source"
                           ELSE "not found",
                   queried |-> st.queried]

\* GetFromSource trying the local source before the named one
GetFromSourceLocalFirst(srcs, sourceName, templateName, w) ==
    LET local == SourceGet(Head(srcs), templateName, w[Head(srcs)])
        named == { i \in 1..Len(srcs) : srcs[i] = sourceName }
        source == srcs[CHOOSE i \in named : \A j \in named : i <= j]
        got == SourceGet(source, templateName, w[source])
    IN  IF local.err = "nil"
        THEN [file |-> local.file, content |-> local.content, err |-> "nil",
              queried |-> <<Query(Head(srcs), templateName)>>]
        ELSE IF named = {}
             THEN [file |-> NoFile, content |-> <<>>, err |-> "unknown source",
                   queried |-> <<Query(Head(srcs), templateName)>>]
             ELSE [file |-> got.file, content |-> got.content, err |-> got.err,
                   queried |-> <<Query(Head(srcs), templateName),
                                 Query(source, templateName)>>]

\* GetFromSource going on to the sources after the named one when it fails
GetFromSourceFallback(srcs, sourceName, templateName, w) ==
    LET named == { i \in 1..Len(srcs) : srcs[i] = sourceName }
        first == CHOOSE i \in named : \A j \in named : i <= j
        got == SourceGet(srcs[first], templateName, w[srcs[first]])
        st == GetRemotes(SubSeq(srcs, first + 1, Len(srcs)), 1, templateName, w,
                  [file |-> NoFile, content |-> <<>>, err |-> got.err,
                   lastErr |-> got.err,
                   queried |-> <<Query(srcs[first], templateName)>>])
    IN  IF named = {}
        THEN [file |-> NoFile, content |-> <<>>, err |-> "unknown source",
              queried |-> <<>>]
        ELSE IF got.err = "nil"
             THEN [file |-> got.file, content |-> got.content, err |-> "nil",
                   queried |-> <<Query(srcs[first], templateName)>>]
             ELSE [file |-> st.file, content |-> st.content, err |-> st.err,
                   queried |-> st.queried]

\* SourceManager.GetFromSource: the Get of the first source of that name
GetFromSource(srcs, sourceName, templateName, w) ==
    LET named == { i \in 1..Len(srcs) : srcs[i] = sourceName }
        source == srcs[CHOOSE i \in named : \A j \in named : i <= j]
        got == SourceGet(source, templateName, w[source])
    IN  IF named = {}
        THEN [file |-> NoFile, content |-> <<>>, err |-> "unknown source",
              queried |-> <<>>]
        ELSE [file |-> got.file, content |-> got.content, err |-> got.err,
              queried |-> <<Query(source, templateName)>>]

\* the loop of SourceManager.Find over the remote sources from remote i on
RECURSIVE FindRemotes(_, _, _, _, _)
FindRemotes(remote, i, name, w, st) ==
    IF i > Len(remote)
    THEN st
    ELSE LET found == SourceFind(remote[i], name, w[remote[i]])
             queried == Append(st.queried, Query(remote[i], name))
         IN  IF found.err = "nil"
             THEN [file |-> found.file, err |-> "nil", queried |-> queried]
             ELSE FindRemotes(remote, i + 1, name, w, [st EXCEPT !.queried = queried])

\* SourceManager.Find: local first, then the remote sources in order
Find(srcs, name, w) ==
    LET found == SourceFind(Head(srcs), name, w[Head(srcs)])
    IN  IF found.err = "nil"
        THEN [file |-> found.file, err |-> "nil",
              queried |-> <<Query(Head(srcs), name)>>]
        ELSE FindRemotes(Tail(srcs), 1, name, w,
                 [file |-> NoFile, err |-> "not found in any source",
                  queried |-> <<Query(Head(srcs), name)>>])

\* the prefixes that qualify a name with a source
SourcePrefixes ==
    (LocalName :> <<"l", "o", "c", "a", "l">>)
    @@ (GitHubName :> <<"g", "i", "t", "h", "u", "b">>)
    @@ (ToptalName :> <<"t", "o", "p", "t", "a", "l">>)

\* SourceManager.GetAny: a name qualified as <source>/<rest> goes to that
\* source alone with <rest> as the key, any other name through Get
GetAny(srcs, name, w) ==
    LET slash == Index(name, 1, <<"/">>)
        prefix == SubSeq(name, 1, slash - 1)
        rest == SubSeq(name, slash + 1, Len(name))
        named == { s \in DOMAIN SourcePrefixes : SourcePrefixes[s] = prefix }
    IN  IF slash > 0 /\ named # {}
        THEN GetFromSource(srcs, CHOOSE s \in named : TRUE, rest, w)
        ELSE Get(srcs, name, w)

\* the arguments of GetFromSource: the three sources and an unknown name
SourceNames == {LocalName, GitHubName, ToptalName, "unknown"}

\* the arguments of GetAny: names qualified with a source, a plain name, and
\* a name whose first segment is no source
AnyNames ==
    { <<"t", "o", "p", "t", "a", "l", "/", "R", "U", "S", "T">>,
      <<"l", "o", "c", "a", "l", "/", "g", "o">>,
      <<"g", "i", "t", "h", "u", "b", "/", "g", "o">>,
      <<"g", "o">>,
      <<"c", "/", "g", "o">> }

InitLookup ==
    /\ exists = FALSE
    /\ data = <<>>
    /\ last = [op |-> "none", name |-> <<>>, content |-> <<>>, patterns |-> <<>>,
               err |-> "nil", before |-> <<>>, existed |-> FALSE,
               reads |-> 0, writes |-> 0, has |-> FALSE,
               added |-> <<>>, skipped |-> <<>>, prevAdd |-> NoAdd, wasLive |-> FALSE]
    /\ live = <<>>
    /\ phase = "adding"
    /\ \E enableToptal \in BOOLEAN : sources = NewSourceManager(enableToptal)
    /\ world \in Worlds(sources)
    /\ smLast = [op |-> "none"]
    /\ client = NoClient
    /\ clLast = [op |-> "none"]
    /\ dir = NoDir
    /\ lsLast = [op |-> "none"]
    /\ procs = NoProcs
    /\ lost = FALSE
    /\ cmdLast = [op |-> "none"]

lookupFrame == <<sources, world, editorVars, clientVars, localVars, procVars, cmdVars>>

ListCall ==
    /\ \E r \in {List(sources, world)} :
          smLast' = [op |-> "List", files |-> r.files, err |-> r.err,
                     queried |-> r.queried]
    /\ UNCHANGED lookupFrame

GetCall(name) ==
    /\ \E r \in {Get(sources, name, world)} :
          smLast' = [op |-> "Get", name |-> name, file |-> r.file,
                     content |-> r.content, err |-> r.err, queried |-> r.queried]
    /\ UNCHANGED lookupFrame

GetFromSourceCall(sourceName, templateName) ==
    /\ \E r \in {GetFromSource(sources, sourceName, templateName, world)} :
          smLast' = [op |-> "GetFromSource", sourceName |-> sourceName,
                     name |-> templateName, file |-> r.file,
                     content |-> r.content, err |-> r.err, queried |-> r.queried]
    /\ UNCHANGED lookupFrame

FindCall(name) ==
    /\ \E r \in {Find(sources, name, world)} :
          smLast' = [op |-> "Find", name |-> name, file |-> r.file,
                     err |-> r.err, queried |-> r.queried]
    /\ UNCHANGED lookupFrame

GetAnyCall(name) ==
    /\ \E r \in {GetAny(sources, name, world)} :
          smLast' = [op |-> "GetAny", name |-> name, file |-> r.file,
                     content |-> r.content, err |-> r.err, queried |-> r.queried]
    /\ UNCHANGED lookupFrame

NextLookup ==
    \/ ListCall
    \/ \E name \in LookupNames : GetCall(name)
    \/ \E sourceName \in SourceNames, name \in LookupNames :
           GetFromSourceCall(sourceName, name)
    \/ \E name \in LookupNames : FindCall(name)
    \/ \E name \in AnyNames : GetAnyCall(name)

SpecLookup == InitLookup /\ [][NextLookup]_vars

-----------------------------------------------------------------------------
(* The GitHub client (pkg/github): repository URLs and the tree listing.    *)

GitSuffix == <<".", "g", "i", "t">>
GitHubPath == <<"g", "i", "t", "h", "u", "b", ".", "c", "o", "m", "/">>
GitHubSSH ==
    <<"g", "i", "t", "@", "g", "i", "t", "h", "u", "b", ".", "c", "o", "m", ":">>
GitignoreSuffix == <<".", "g", "i", "t", "i", "g", "n", "o", "r", "e">>
MainBranch == <<"m", "a", "i", "n">>
MasterBranch == <<"m", "a", "s", "t", "e", "r">>

\* parseRepoURL: the owner, the repo and the error
parseRepoURL(repoURL) ==
    LET trimmed == TrimSuffix(repoURL, GitSuffix)
        parts == Split(trimmed, GitHubPath)
        pathParts == Split(Trim(parts[2], {"/"}), <<"/">>)
        sshParts == Split(TrimPrefix(trimmed, GitHubSSH), <<"/">>)
    IN  IF Contains(trimmed, GitHubPath)
        THEN IF Len(parts) < 2 \/ Len(pathParts) < 2
             THEN [owner |-> <<>>, repo |-> <<>>, err |-> "invalid GitHub URL"]
             ELSE [owner |-> pathParts[1], repo |-> pathParts[2], err |-> "nil"]
        ELSE IF HasPrefix(trimmed, GitHubSSH)
             THEN IF Len(sshParts) < 2
                  THEN [owner |-> <<>>, repo |-> <<>>, err |-> "invalid GitHub SSH URL"]
                  ELSE [owner |-> sshParts[1], repo |-> sshParts[2], err |-> "nil"]
             ELSE [owner |-> <<>>, repo |-> <<>>, err |-> "unsupported URL format"]

\* NewClient: the client on branch "main", or no client and the parse error
NewClient(repoURL) ==
    LET parsed == parseRepoURL(repoURL)
    IN  IF parsed.err # "nil"
        THEN [client |-> NoClient, err |-> parsed.err]
        ELSE [client |-> [created |-> TRUE, owner |-> parsed.owner,
                          repo |-> parsed.repo, branch |-> MainBranch],
              err |-> "nil"]

\* parseGitignorePath: name from the last segment, category from the others
parseGitignorePath(path) ==
    LET parts == Split(path, <<"/">>)
    IN  [Name |-> TrimSuffix(parts[Len(parts)], GitignoreSuffix),
         Path |-> path,
         Category |-> IF Len(parts) > 1
                      THEN JoinWith(SubSeq(parts, 1, Len(parts) - 1), <<"/">>)
                      ELSE <<>>]

\* the loop of ListGitignoreFiles over tree.Tree: the blobs whose path
\* matches (?i)\.gitignore$
TreeFiles(tree) ==
    LET kept == SelectSeq(tree, LAMBDA item :
                    item.Type = "blob" /\ HasSuffix(ToLower(item.Path), GitignoreSuffix))
    IN  [i \in 1..Len(kept) |-> parseGitignorePath(kept[i].Path)]

\* the end of ListGitignoreFiles, from the response it settled on
ListDecode(resp, branch, requests) ==
    IF resp.status # 200
    THEN [files |-> <<>>, err |-> "GitHub API error", branch |-> branch,
          requests |-> requests]
    ELSE IF ~resp.decodes
         THEN [files |-> <<>>, err |-> "failed to decode response",
               branch |-> branch, requests |-> requests]
         ELSE [files |-> TreeFiles(resp.tree), err |-> "nil", branch |-> branch,
               requests |-> requests]

\* Client.ListGitignoreFiles on a client whose branch is c.branch, when the
\* first request ends as resp1 and a second one as resp2 (status 0 is a
\* transport error): the files, the error, the branch the client is left
\* on, and the branches requested
ListGitignoreFiles(c, resp1, resp2) ==
    IF resp1.status = 0
    THEN [files |-> <<>>, err |-> "failed to fetch repository tree",
          branch |-> c.branch, requests |-> <<c.branch>>]
    ELSE IF resp1.status = 404
         THEN IF resp2.status = 0
              THEN [files |-> <<>>, err |-> "failed to fetch repository tree",
                    branch |-> MasterBranch, requests |-> <<c.branch, MasterBranch>>]
              ELSE ListDecode(resp2, MasterBranch, <<c.branch, MasterBranch>>)
         ELSE ListDecode(resp1, c.branch, <<c.branch>>)

\* repository URLs: a scheme and host, a path of one to three segments, an
\* optional ".git" and an optional trailing "/"
URLPrefixes ==
    { <<"h", "t", "t", "p", "s", ":", "/", "/">> \o GitHubPath,
      <<"h", "t", "t", "p", "s", ":", "/", "/", "e", "x", ".", "i", "o", "/">>,
      GitHubSSH,
      <<"g", "i", "t", "@", "e", "x", ".", "i", "o", ":">>,
      <<>> }

URLPaths == { <<"o">>, <<"o", "/", "r">>, <<"o", "/", "r", "/", "x">> }

RepoURLs ==
    { prefix \o path \o git \o slash :
        prefix \in URLPrefixes, path \in URLPaths,
        git \in {<<>>, GitSuffix}, slash \in {<<>>, <<"/">>} }

\* the trees a repository may hold: nothing, or templates at the root and
\* in a directory next to entries that are none
Trees ==
    { <<>>,
      << [Path |-> <<"G", "o">> \o GitignoreSuffix, Type |-> "blob"],
         [Path |-> <<"d">>, Type |-> "tree"],
         [Path |-> <<"d", "/", "g", "o">> \o GitignoreSuffix, Type |-> "blob"],
         [Path |-> <<"R", "E", "A", "D", "M", "E">>, Type |-> "blob"] >> }

\* how a request may end: a transport error (status 0), not found, another
\* failure status, a body that does not decode, or a tree
Responses ==
    { [status |-> st, decodes |-> FALSE, tree |-> <<>>] : st \in {0, 404, 500, 200} }
    \cup { [status |-> 200, decodes |-> TRUE, tree |-> t] : t \in Trees }

\* Client.FindGitignoreFile: the listing, then the first file whose name
\* is the wanted one, then the first whose category/name is, both compared
\* in lower case
FindGitignoreFile(c, name, resp1, resp2) ==
    LET listed == ListGitignoreFiles(c, resp1, resp2)
        bare == FirstMatch(listed.files, ToLower(name), FALSE)
        full == FirstMatch(listed.files, ToLower(name), TRUE)
    IN  IF listed.err # "nil"
        THEN [file |-> NoFile, err |-> listed.err, branch |-> listed.branch,
              requests |-> listed.requests]
        ELSE [file |-> IF bare # NoFile THEN bare ELSE full,
              err |-> IF bare = NoFile /\ full = NoFile THEN "not found" ELSE "nil",
              branch |-> listed.branch, requests |-> listed.requests]

\* how the request for a raw file may end: a transport error (status 0), a
\* failure status, a body that cannot be read, or the content
RawOutcomes ==
    { [status |-> 0, reads |-> FALSE], [status |-> 404, reads |-> FALSE],
      [status |-> 200, reads |-> FALSE], [status |-> 200, reads |-> TRUE] }

\* the content request always sent for the branch "main"
GetGitignoreContentOnMain(c, file, raw) ==
    [branch |-> MainBranch,
     content |-> IF raw.status = 200 /\ raw.reads THEN <<MainBranch, file.Path>> ELSE <<>>,
     err |-> IF raw.status = 0 THEN "failed to fetch gitignore content"
             ELSE IF raw.status # 200 THEN "failed to fetch gitignore content (status)"
             ELSE IF ~raw.reads THEN "failed to read gitignore content"
             ELSE "nil"]

\* Client.GetGitignoreContent: the branch in the raw URL, the content (the
\* file of that path on that branch) and the error
GetGitignoreContent(c, file, raw) ==
    [branch |-> c.branch,
     content |-> IF raw.status = 200 /\ raw.reads THEN <<c.branch, file.Path>> ELSE <<>>,
     err |-> IF raw.status = 0 THEN "failed to fetch gitignore content"
             ELSE IF raw.status # 200 THEN "failed to fetch gitignore content (status)"
             ELSE IF ~raw.reads THEN "failed to read gitignore content"
             ELSE "nil"]

\* GitHubSource.Get: FindGitignoreFile, then GetGitignoreContent on the
\* client as the listing left it; fetched is the branch of the raw URL, empty
\* when no content was requested
GitHubSourceGet(c, name, resp1, resp2, raw) ==
    LET found == FindGitignoreFile(c, name, resp1, resp2)
        got == GetGitignoreContent([c EXCEPT !.branch = found.branch], found.file, raw)
    IN  IF found.err # "nil"
        THEN [file |-> NoFile, content |-> <<>>, err |-> found.err,
              branch |-> found.branch, requests |-> found.requests, fetched |-> <<>>]
        ELSE [file |-> IF got.err = "nil"
                       THEN [Name |-> found.file.Name, Path |-> found.file.Path,
                             Category |-> found.file.Category, Source |-> GitHubName]
                       ELSE NoFile,
              content |-> got.content, err |-> got.err,
              branch |-> found.branch, requests |-> found.requests,
              fetched |-> got.branch]

\* the names asked of the GitHub source
ClientNames == { <<"g", "o">>, <<"D", "/", "G", "O">>, <<"c">> }

InitClient ==
    /\ exists = FALSE
    /\ data = <<>>
    /\ last = [op |-> "none", name |-> <<>>, content |-> <<>>, patterns |-> <<>>,
               err |-> "nil", before |-> <<>>, existed |-> FALSE,
               reads |-> 0, writes |-> 0, has |-> FALSE,
               added |-> <<>>, skipped |-> <<>>, prevAdd |-> NoAdd, wasLive |-> FALSE]
    /\ live = <<>>
    /\ phase = "adding"
    /\ sources = <<LocalName, GitHubName>>
    /\ world = <<>>
    /\ smLast = [op |-> "none"]
    /\ client = NoClient
    /\ clLast = [op |-> "none"]
    /\ dir = NoDir
    /\ lsLast = [op |-> "none"]
    /\ procs = NoProcs
    /\ lost = FALSE
    /\ cmdLast = [op |-> "none"]

NewClientCall(repoURL) ==
    /\ \E r \in {NewClient(repoURL)} :
          /\ client' = r.client
          /\ clLast' = [op |-> "NewClient", url |-> repoURL, owner |-> r.client.owner,
                        repo |-> r.client.repo, err |-> r.err]
    /\ UNCHANGED <<editorVars, resolverVars, localVars, procVars, cmdVars>>

ListGitignoreFilesCall(resp1, resp2) ==
    /\ client.created
    /\ \E r \in {ListGitignoreFiles(client, resp1, resp2)} :
          /\ client' = [client EXCEPT !.branch = r.branch]
          /\ clLast' = [op |-> "ListGitignoreFiles", resp1 |-> resp1,
                        resp2 |-> IF Len(r.requests) = 2 THEN resp2 ELSE resp1,
                        files |-> r.files, err |-> r.err, requests |-> r.requests]
    /\ UNCHANGED <<editorVars, resolverVars, localVars, procVars, cmdVars>>

\* GitHubSource.Find, which is Client.FindGitignoreFile
GitHubSourceFindCall(name, resp1, resp2) ==
    /\ client.created
    /\ \E r \in {FindGitignoreFile(client, name, resp1, resp2)} :
          /\ client' = [client EXCEPT !.branch = r.branch]
          /\ clLast' = [op |-> "Find", name |-> name, resp1 |-> resp1,
                        resp2 |-> IF Len(r.requests) = 2 THEN resp2 ELSE resp1,
                        file |-> r.file, err |-> r.err, requests |-> r.requests]
    /\ UNCHANGED <<editorVars, resolverVars, localVars, procVars, cmdVars>>

GitHubSourceGetCall(name, resp1, resp2, raw) ==
    /\ client.created
    /\ \E r \in {GitHubSourceGet(client, name, resp1, resp2, raw)} :
          /\ client' = [client EXCEPT !.branch = r.branch]
          /\ clLast' = [op |-> "Get", name |-> name, resp1 |-> resp1,
                        resp2 |-> IF Len(r.requests) = 2 THEN resp2 ELSE resp1,
                        file |-> r.file, content |-> r.content, err |-> r.err,
                        requests |-> r.requests, fetched |-> r.fetched,
                        before |-> client.branch]
    /\ UNCHANGED <<editorVars, resolverVars, localVars, procVars, cmdVars>>

NextClient ==
    \/ \E repoURL \in RepoURLs : NewClientCall(repoURL)
    \/ \E resp1, resp2 \in Responses : ListGitignoreFilesCall(resp1, resp2)
    \/ \E name \in ClientNames, resp1, resp2 \in Responses :
          GitHubSourceFindCall(name, resp1, resp2)
    \/ \E name \in ClientNames, resp1, resp2 \in Responses, raw \in RawOutcomes :
          GitHubSourceGetCall(name, resp1, resp2, raw)

SpecClient == InitClient /\ [][NextClient]_vars

-----------------------------------------------------------------------------
(* The local source (pkg/source/source.go) on its directory.                *)

\* the entries a local templates directory may hold, in the order os.ReadDir
\* returns them (sorted by filename): a template with an upper-case
\* extension, two templates whose names differ in case only, a file that is
\* no template, and a directory named like a template
DirEntries ==
    << [name |-> <<"G", "o", ".", "G", "I", "T", "I", "G", "N", "O", "R", "E">>,
        isDir |-> FALSE],
       [name |-> <<"G", "o">> \o GitignoreSuffix, isDir |-> FALSE],
       [name |-> <<"R", "E", "A", "D", "M", "E", ".", "m", "d">>, isDir |-> FALSE],
       [name |-> <<"d">> \o GitignoreSuffix, isDir |-> TRUE],
       [name |-> <<"g", "o">> \o GitignoreSuffix, isDir |-> FALSE] >>

\* the entries of all at the positions of picked, from position i on
RECURSIVE Pick(_, _, _)
Pick(all, i, picked) ==
    IF i > Len(all)
    THEN <<>>
    ELSE (IF i \in picked THEN <<all[i]>> ELSE <<>>) \o Pick(all, i + 1, picked)

\* the directories: missing, unreadable, or holding some of the entries
Dirs ==
    { NoDir, [state |-> "unreadable", entries |-> <<>>] }
    \cup { [state |-> "ok", entries |-> Pick(DirEntries, 1, picked)] :
             picked \in SUBSET (1..Len(DirEntries)) }

\* LocalSource.List: the templates of the directory and the error
LocalList(d) ==
    IF d.state = "missing"
    THEN [files |-> <<>>, err |-> "nil"]
    ELSE IF d.state # "ok"
         THEN [files |-> <<>>, err |-> "failed to read local templates directory"]
         ELSE LET kept == SelectSeq(d.entries, LAMBDA entry :
                              /\ ~entry.isDir
                              /\ HasSuffix(ToLower(entry.name), GitignoreSuffix))
              IN  [files |-> [i \in 1..Len(kept) |->
                                [Name |-> TrimSuffix(kept[i].name, GitignoreSuffix),
                                 Path |-> kept[i].name,
                                 Category |-> <<>>,
                                 Source |-> LocalName]],
                   err |-> "nil"]

\* LocalSource.Find: List(), then the first file of that name
LocalFind(d, name) ==
    SourceFind(LocalName, name,
               [files |-> LocalList(d).files, err |-> LocalList(d).err, fetch |-> "nil"])

\* LocalSource.Get: Find, then os.ReadFile, which ends as read
LocalGet(d, name, read) ==
    SourceGet(LocalName, name,
              [files |-> LocalList(d).files, err |-> LocalList(d).err, fetch |-> read])

InitLocal ==
    /\ exists = FALSE
    /\ data = <<>>
    /\ last = [op |-> "none", name |-> <<>>, content |-> <<>>, patterns |-> <<>>,
               err |-> "nil", before |-> <<>>, existed |-> FALSE,
               reads |-> 0, writes |-> 0, has |-> FALSE,
               added |-> <<>>, skipped |-> <<>>, prevAdd |-> NoAdd, wasLive |-> FALSE]
    /\ live = <<>>
    /\ phase = "adding"
    /\ sources = <<LocalName, GitHubName>>
    /\ world = <<>>
    /\ smLast = [op |-> "none"]
    /\ client = NoClient
    /\ clLast = [op |-> "none"]
    /\ dir \in Dirs
    /\ lsLast = [op |-> "none"]
    /\ procs = NoProcs
    /\ lost = FALSE
    /\ cmdLast = [op |-> "none"]

LocalListCall ==
    /\ \E r \in {LocalList(dir)} :
          lsLast' = [op |-> "List", files |-> r.files, err |-> r.err]
    /\ UNCHANGED <<dir, editorVars, resolverVars, clientVars, procVars, cmdVars>>

LocalFindCall(name) ==
    /\ \E r \in {LocalFind(dir, name)} :
          lsLast' = [op |-> "Find", name |-> name, file |-> r.file, err |-> r.err]
    /\ UNCHANGED <<dir, editorVars, resolverVars, clientVars, procVars, cmdVars>>

LocalGetCall(name, read) ==
    /\ \E r \in {LocalGet(dir, name, read)} :
          lsLast' = [op |-> "Get", name |-> name, read |-> read, file |-> r.file,
                     content |-> r.content, err |-> r.err]
    /\ UNCHANGED <<dir, editorVars, resolverVars, clientVars, procVars, cmdVars>>

NextLocal ==
    \/ LocalListCall
    \/ \E name \in LookupNames : LocalFindCall(name)
    \/ \E name \in LookupNames, read \in FetchOutcomes : LocalGetCall(name, read)

SpecLocal == InitLocal /\ [][NextLocal]_vars

-----------------------------------------------------------------------------
(* Lookups through the chain when the GitHub repository groups templates    *)
(* in directories.                                                          *)

\* GitHubSource.List: the files of the client's listing, tagged "github"
GitHubSourceList(tree) ==
    LET files == TreeFiles(tree)
    IN  [i \in 1..Len(files) |->
            [Name |-> files[i].Name, Path |-> files[i].Path,
             Category |-> files[i].Category, Source |-> GitHubName]]

\* the trees of the repository: empty, a template in a directory, and the
\* same with a template of that name at the root after it
ChainTrees ==
    { <<>>,
      << [Path |-> <<"d", "/", "g", "o">> \o GitignoreSuffix, Type |-> "blob"] >>,
      << [Path |-> <<"d", "/", "g", "o">> \o GitignoreSuffix, Type |-> "blob"],
         [Path |-> <<"G", "o">> \o GitignoreSuffix, Type |-> "blob"] >> }

\* the tokens of the Toptal list: none, "go", or "d/go"
ToptalLists ==
    { <<>>, <<<<"g", "o">>>>, <<<<"d", "/", "g", "o">>>> }

\* what each source holds: its listing succeeds or fails, its content
\* request succeeds
ChainStates(source) ==
    LET lists == IF source = GitHubName
                 THEN { GitHubSourceList(tree) : tree \in ChainTrees }
                 ELSE IF source = ToptalName
                      THEN { FilesOf(source, names) : names \in ToptalLists }
                      ELSE { FilesOf(source, names) : names \in TemplateLists }
    IN  { [files |-> files, err |-> "nil", fetch |-> "nil"] : files \in lists }
        \cup { [files |-> <<>>, err |-> "transport error", fetch |-> "nil"] }

ChainWorlds(srcs) ==
    LET names == { srcs[i] : i \in 1..Len(srcs) }
    IN  { w \in [names -> UNION { ChainStates(s) : s \in names }] :
            \A s \in names : w[s] \in ChainStates(s) }

\* the names looked up: a bare name and a category/name, in another case
\* than the templates'
ChainNames == { <<"G", "O">>, <<"D", "/", "G", "O">>, <<"c">> }

InitChain ==
    /\ exists = FALSE
    /\ data = <<>>
    /\ last = [op |-> "none", name |-> <<>>, content |-> <<>>, patterns |-> <<>>,
               err |-> "nil", before |-> <<>>, existed |-> FALSE,
               reads |-> 0, writes |-> 0, has |-> FALSE,
               added |-> <<>>, skipped |-> <<>>, prevAdd |-> NoAdd, wasLive |-> FALSE]
    /\ live = <<>>
    /\ phase = "adding"
    /\ \E enableToptal \in BOOLEAN : sources = NewSourceManager(enableToptal)
    /\ world \in ChainWorlds(sources)
    /\ smLast = [op |-> "none"]
    /\ client = NoClient
    /\ clLast = [op |-> "none"]
    /\ dir = NoDir
    /\ lsLast = [op |-> "none"]
    /\ procs = NoProcs
    /\ lost = FALSE
    /\ cmdLast = [op |-> "none"]

NextChain ==
    \/ \E name \in ChainNames : FindCall(name)
    \/ \E name \in ChainNames : GetCall(name)

SpecChain == InitChain /\ [][NextChain]_vars

-----------------------------------------------------------------------------
(* AddPatterns when a file access fails. The accesses of a call are         *)
(* numbered in the order the code makes them; fault is the number of the    *)
(* one that fails, 0 when none does. A failed access leaves the file as it  *)
(* was.                                                                     *)

\* the highest number of the failing access
MaxFault == 9

\* the loop of AddPatterns going on to the next pattern after an error
RECURSIVE AddPatternsFaultyLoopGoOn(_, _, _, _)
AddPatternsFaultyLoopGoOn(patterns, i, st, fault) ==
    IF i > Len(patterns)
    THEN st
    ELSE LET pattern == TrimSpace(patterns[i])
             sectionName == IgnoredSectionPrefix \o pattern
             failed(k, e) == [st EXCEPT !.err = e, !.n = k,
                                        !.failedAt = IF st.failedAt = 0 THEN i ELSE @]
         IN  IF pattern = <<>>
             THEN AddPatternsFaultyLoopGoOn(patterns, i + 1, st, fault)
             ELSE IF fault = st.n + 1
             THEN AddPatternsFaultyLoopGoOn(patterns, i + 1, failed(st.n + 1, "read error"), fault)
             ELSE IF HasSection(st.out, sectionName)
             THEN AddPatternsFaultyLoopGoOn(patterns, i + 1,
                      [st EXCEPT !.skipped = Append(st.skipped, pattern),
                                 !.n = st.n + 1], fault)
             ELSE IF fault = st.n + 2
             THEN AddPatternsFaultyLoopGoOn(patterns, i + 1, failed(st.n + 2, "read error"), fault)
             ELSE IF fault = st.n + 3
             THEN AddPatternsFaultyLoopGoOn(patterns, i + 1, failed(st.n + 3, "read error"), fault)
             ELSE IF fault = st.n + 4
             THEN AddPatternsFaultyLoopGoOn(patterns, i + 1, failed(st.n + 4, "write error"), fault)
             ELSE AddPatternsFaultyLoopGoOn(patterns, i + 1,
                      [st EXCEPT !.out = AddBuild(st.out, sectionName, pattern),
                                 !.added = Append(st.added, pattern),
                                 !.n = st.n + 4,
                                 !.writes = st.writes + 1], fault)

\* the loop of AddPatterns without the HasSection test before Add
RECURSIVE AddPatternsFaultyLoopNoSkip(_, _, _, _)
AddPatternsFaultyLoopNoSkip(patterns, i, st, fault) ==
    IF i > Len(patterns)
    THEN st
    ELSE LET pattern == TrimSpace(patterns[i])
             sectionName == IgnoredSectionPrefix \o pattern
             failed(k, e) == [st EXCEPT !.err = e, !.n = k, !.failedAt = i]
         IN  IF pattern = <<>>
             THEN AddPatternsFaultyLoopNoSkip(patterns, i + 1, st, fault)
             ELSE IF fault = st.n + 1
             THEN failed(st.n + 1, "read error")
             ELSE IF fault = st.n + 2
             THEN failed(st.n + 2, "read error")
             ELSE IF fault = st.n + 3
             THEN failed(st.n + 3, "write error")
             ELSE AddPatternsFaultyLoopNoSkip(patterns, i + 1,
                      [st EXCEPT !.out = AddBuild(st.out, sectionName, pattern),
                                 !.added = Append(st.added, pattern),
                                 !.n = st.n + 3,
                                 !.writes = st.writes + 1], fault)

\* the loop of Manager.AddPatterns from pattern i on: the read of
\* HasSection, then in Add the read of HasSection, the Read and the write;
\* st carries the file content, the named results, the number n of accesses
\* made and the pattern the error came at
RECURSIVE AddPatternsFaultyLoop(_, _, _, _)
AddPatternsFaultyLoop(patterns, i, st, fault) ==
    IF i > Len(patterns)
    THEN st
    ELSE LET pattern == TrimSpace(patterns[i])
             sectionName == IgnoredSectionPrefix \o pattern
             failed(k, e) == [st EXCEPT !.err = e, !.n = k, !.failedAt = i]
         IN  IF pattern = <<>>
             THEN AddPatternsFaultyLoop(patterns, i + 1, st, fault)
             ELSE IF fault = st.n + 1
             THEN failed(st.n + 1, "read error")
             ELSE IF HasSection(st.out, sectionName)
             THEN AddPatternsFaultyLoop(patterns, i + 1,
                      [st EXCEPT !.skipped = Append(st.skipped, pattern),
                                 !.n = st.n + 1], fault)
             ELSE IF fault = st.n + 2
             THEN failed(st.n + 2, "read error")
             ELSE IF fault = st.n + 3
             THEN failed(st.n + 3, "read error")
             ELSE IF fault = st.n + 4
             THEN failed(st.n + 4, "write error")
             ELSE AddPatternsFaultyLoop(patterns, i + 1,
                      [st EXCEPT !.out = AddBuild(st.out, sectionName, pattern),
                                 !.added = Append(st.added, pattern),
                                 !.n = st.n + 4,
                                 !.writes = st.writes + 1], fault)

\* Manager.AddPatterns when access number fault fails
AddPatternsFaulty(currentContent, patterns, fault) ==
    AddPatternsFaultyLoop(patterns, 1,
        [err |-> "nil", out |-> currentContent, added |-> <<>>, skipped |-> <<>>,
         n |-> 0, reads |-> 0, writes |-> 0, failedAt |-> 0], fault)

\* argument lists of AddPatterns: a pattern, its repetition with spaces
\* around, a pattern it is a prefix of, and another pattern; and a blank
\* pattern before a pattern
FaultLists ==
    { << <<"a">>, <<" ", "a", " ">>, <<"a", "b">>, <<"b">> >>,
      << <<" ">>, <<"b">> >> }

InitFaulty ==
    /\ exists \in BOOLEAN
    /\ data \in (IF exists THEN {<<>>, <<"t">>} ELSE {<<>>})
    /\ last = [op |-> "none", name |-> <<>>, content |-> <<>>, patterns |-> <<>>,
               err |-> "nil", before |-> <<>>, existed |-> FALSE,
               reads |-> 0, writes |-> 0, has |-> FALSE,
               added |-> <<>>, skipped |-> <<>>, prevAdd |-> NoAdd, wasLive |-> FALSE,
               fault |-> 0, failedAt |-> 0]
    /\ live = <<>>
    /\ phase = "mixed"
    /\ sources = <<LocalName, GitHubName>>
    /\ world = <<>>
    /\ smLast = [op |-> "none"]
    /\ client = NoClient
    /\ clLast = [op |-> "none"]
    /\ dir = NoDir
    /\ lsLast = [op |-> "none"]
    /\ procs = NoProcs
    /\ lost = FALSE
    /\ cmdLast = [op |-> "none"]

AddPatternsFaultyCall(patterns, fault) ==
    /\ \E r \in {AddPatternsFaulty(Read, patterns, fault)} :
           /\ Write(r)
           /\ last' = [op |-> "AddPatterns", name |-> <<>>, content |-> <<>>,
                       patterns |-> patterns, err |-> r.err, before |-> Read,
                       existed |-> exists, reads |-> r.n - r.writes,
                       writes |-> r.writes, has |-> FALSE,
                       added |-> r.added, skipped |-> r.skipped, prevAdd |-> NoAdd,
                       wasLive |-> FALSE, fault |-> fault, failedAt |-> r.failedAt]
    /\ UNCHANGED <<live, phase, resolverVars, clientVars, localVars, procVars, cmdVars>>

NextFaulty ==
    \E patterns \in FaultLists, fault \in 0..MaxFault :
        AddPatternsFaultyCall(patterns, fault)

SpecFaulty == InitFaulty /\ [][NextFaulty]_vars

-----------------------------------------------------------------------------
(* Two processes editing the same file. Manager takes no lock: each file    *)
(* access of Add and Delete is a step of its own, and the steps of the      *)
(* processes interleave.                                                    *)

\* the number of operations a process runs
MaxOps == 2

Procs == {"p", "q"}

\* the section names and the content the processes use
ProcNames == { <<"G", "o">>, <<"R">> }
ProcContent == <<"a", "\n">>

Idle == [pc |-> "idle", op |-> "none", name |-> <<>>, cur |-> <<>>,
         err |-> "nil", ops |-> 0]

\* the names of the start-marker lines of a content
StartNames(content) ==
    { n \in ProcNames : \E i \in 1..Len(ScanLines(content)) :
                            TrimSpace(ScanLines(content)[i]) = StartMarker(n) }

procFrame == <<last, live, phase, resolverVars, clientVars, localVars, cmdVars>>

InitProcs ==
    /\ exists = FALSE
    /\ data = <<>>
    /\ last = [op |-> "none", name |-> <<>>, content |-> <<>>, patterns |-> <<>>,
               err |-> "nil", before |-> <<>>, existed |-> FALSE,
               reads |-> 0, writes |-> 0, has |-> FALSE,
               added |-> <<>>, skipped |-> <<>>, prevAdd |-> NoAdd, wasLive |-> FALSE]
    /\ live = <<>>
    /\ phase = "mixed"
    /\ sources = <<LocalName, GitHubName>>
    /\ world = <<>>
    /\ smLast = [op |-> "none"]
    /\ client = NoClient
    /\ clLast = [op |-> "none"]
    /\ dir = NoDir
    /\ lsLast = [op |-> "none"]
    /\ procs = [p \in Procs |-> Idle]
    /\ lost = FALSE
    /\ cmdLast = [op |-> "none"]

\* a process calls Add or Delete
StartAdd(p, sectionName) ==
    /\ procs[p].pc = "idle"
    /\ procs[p].ops < MaxOps
    /\ procs' = [procs EXCEPT ![p] = [@ EXCEPT !.pc = "has", !.op = "Add",
                                               !.name = sectionName, !.cur = <<>>]]
    /\ UNCHANGED <<exists, data, lost, procFrame>>

StartDelete(p, sectionName) ==
    /\ procs[p].pc = "idle"
    /\ procs[p].ops < MaxOps
    /\ procs' = [procs EXCEPT ![p] = [@ EXCEPT !.pc = "scan", !.op = "Delete",
                                               !.name = sectionName, !.cur = <<>>]]
    /\ UNCHANGED <<exists, data, lost, procFrame>>

\* Add: m.HasSection reads the file and Add returns if the section exists
AddHasSection(p) ==
    /\ procs[p].pc = "has"
    /\ procs' = [procs EXCEPT ![p] =
                    IF HasSection(Read, procs[p].name)
                    THEN [@ EXCEPT !.pc = "idle", !.err = "exists", !.ops = @ + 1]
                    ELSE [@ EXCEPT !.pc = "read"]]
    /\ UNCHANGED <<exists, data, lost, procFrame>>

\* Add: currentContent, err := m.Read()
AddRead(p) ==
    /\ procs[p].pc = "read"
    /\ procs' = [procs EXCEPT ![p] = [@ EXCEPT !.pc = "write", !.cur = Read]]
    /\ UNCHANGED <<exists, data, lost, procFrame>>

\* Add writing what it builds from the file as it is at the write
AddWriteFresh(p) ==
    /\ procs[p].pc = "write"
    /\ exists' = TRUE
    /\ data' = AddBuild(Read, procs[p].name, ProcContent)
    /\ lost' = (lost \/ StartNames(Read) \ StartNames(data') # {})
    /\ procs' = [procs EXCEPT ![p] = [@ EXCEPT !.pc = "idle", !.err = "nil",
                                               !.ops = @ + 1]]
    /\ UNCHANGED procFrame

\* Add: m.write of what the builder holds, built from currentContent
AddWrite(p) ==
    /\ procs[p].pc = "write"
    /\ exists' = TRUE
    /\ data' = AddBuild(procs[p].cur, procs[p].name, ProcContent)
    /\ lost' = (lost \/ StartNames(Read) \ StartNames(data') # {})
    /\ procs' = [procs EXCEPT ![p] = [@ EXCEPT !.pc = "idle", !.err = "nil",
                                               !.ops = @ + 1]]
    /\ UNCHANGED procFrame

\* Delete: m.Read and the scan; Delete returns if the section is not found
DeleteRead(p) ==
    /\ procs[p].pc = "scan"
    /\ procs' = [procs EXCEPT ![p] =
                    IF Delete(Read, procs[p].name).err # "nil"
                    THEN [@ EXCEPT !.pc = "idle", !.err = "notfound", !.ops = @ + 1]
                    ELSE [@ EXCEPT !.pc = "rewrite", !.cur = Read]]
    /\ UNCHANGED <<exists, data, lost, procFrame>>

\* Delete: m.write of the result of the scan
DeleteWrite(p) ==
    /\ procs[p].pc = "rewrite"
    /\ exists' = TRUE
    /\ data' = Delete(procs[p].cur, procs[p].name).out
    /\ lost' = (lost \/ (StartNames(Read) \ {procs[p].name}) \ StartNames(data') # {})
    /\ procs' = [procs EXCEPT ![p] = [@ EXCEPT !.pc = "idle", !.err = "nil",
                                               !.ops = @ + 1]]
    /\ UNCHANGED procFrame

NextProcs ==
    \/ \E p \in Procs, sectionName \in ProcNames : StartAdd(p, sectionName)
    \/ \E p \in Procs, sectionName \in ProcNames : StartDelete(p, sectionName)
    \/ \E p \in Procs : AddHasSection(p)
    \/ \E p \in Procs : AddRead(p)
    \/ \E p \in Procs : AddWrite(p)
    \/ \E p \in Procs : DeleteRead(p)
    \/ \E p \in Procs : DeleteWrite(p)

SpecProcs == InitProcs /\ [][NextProcs]_vars

-----------------------------------------------------------------------------
(* The init command (cmdInitTo): the default types of the configuration,    *)
(* looked up through the SourceManager and added to the ignore file.        *)

\* sectionName in cmdInitTo and cmdAddTo: the name, with the category if any
SectionNameOf(file) ==
    IF file.Category # <<>> THEN file.Category \o <<"/">> \o file.Name ELSE file.Name

\* the text of a fetched template: one line, the path the source served
BodyOf(content) == content[2] \o <<"\n">>

\* the loop of cmdInitTo from default type i on; st carries the file, the
\* types reported as added, skipped and warned about, and the types looked
\* up in the sources
RECURSIVE InitLoop(_, _, _, _, _)
InitLoop(types, i, st, srcs, w) ==
    IF i > Len(types)
    THEN st
    ELSE LET templateType == types[i]
             got == GetAny(srcs, templateType, w)
             added == Add(st.out, SectionNameOf(got.file), BodyOf(got.content))
         IN  IF HasSection(st.out, templateType)
             THEN InitLoop(types, i + 1,
                      [st EXCEPT !.skipped = Append(@, templateType)], srcs, w)
             ELSE IF got.err # "nil"
             THEN InitLoop(types, i + 1,
                      [st EXCEPT !.fetched = Append(@, templateType),
                                 !.warned = Append(@, templateType)], srcs, w)
             ELSE IF added.err # "nil"
             THEN InitLoop(types, i + 1,
                      [st EXCEPT !.fetched = Append(@, templateType),
                                 !.warned = Append(@, templateType)], srcs, w)
             ELSE InitLoop(types, i + 1,
                      [st EXCEPT !.fetched = Append(@, templateType),
                                 !.added = Append(@, templateType),
                                 !.out = added.out,
                                 !.writes = @ + 1], srcs, w)

\* cmdInitTo; addedCount and skippedCount are the lengths of added and
\* skipped
cmdInitTo(currentContent, types, srcs, w) ==
    InitLoop(types, 1,
        [out |-> currentContent, added |-> <<>>, skipped |-> <<>>, warned |-> <<>>,
         fetched |-> <<>>, writes |-> 0], srcs, w)

\* gitignore.default-types: none, a name as the template spells it, a name
\* qualified with its source, and a lower-case name before an unknown one
DefaultTypeLists ==
    { <<>>,
      << <<"G", "o">> >>,
      << <<"g", "i", "t", "h", "u", "b", "/", "g", "o">> >>,
      << <<"r", "u", "s", "t">>, <<"c">> >> }

InitCmd ==
    /\ exists = FALSE
    /\ data = <<>>
    /\ last = [op |-> "none", name |-> <<>>, content |-> <<>>, patterns |-> <<>>,
               err |-> "nil", before |-> <<>>, existed |-> FALSE,
               reads |-> 0, writes |-> 0, has |-> FALSE,
               added |-> <<>>, skipped |-> <<>>, prevAdd |-> NoAdd, wasLive |-> FALSE]
    /\ live = <<>>
    /\ phase = "mixed"
    /\ \E enableToptal \in BOOLEAN : sources = NewSourceManager(enableToptal)
    /\ world \in Worlds(sources)
    /\ smLast = [op |-> "none"]
    /\ client = NoClient
    /\ clLast = [op |-> "none"]
    /\ dir = NoDir
    /\ lsLast = [op |-> "none"]
    /\ procs = NoProcs
    /\ lost = FALSE
    /\ cmdLast = [op |-> "none"]

cmdInitCall(types) ==
    /\ \E r \in {cmdInitTo(Read, types, sources, world)} :
          /\ Write(r)
          /\ cmdLast' = [op |-> "init", types |-> types, before |-> Read,
                         added |-> r.added, skipped |-> r.skipped,
                         warned |-> r.warned, fetched |-> r.fetched,
                         addedCount |-> Len(r.added),
                         skippedCount |-> Len(r.skipped), writes |-> r.writes]
    /\ UNCHANGED <<last, live, phase, resolverVars, clientVars, localVars, procVars>>

NextCmd ==
    \E types \in DefaultTypeLists : cmdInitCall(types)

SpecCmd == InitCmd /\ [][NextCmd]_vars

-----------------------------------------------------------------------------
(* Properties of the section editor.                                        *)

\* the lines of a content, split at "\n"
Lines(content) == ScanLines(content)

\* some line of the content is, after trimming the whitespace around it, the
\* start marker of the section
HasStartLine(content, sectionName) ==
    \E i \in 1..Len(Lines(content)) :
        TrimSpace(Lines(content)[i]) = StartMarker(sectionName)

LiveNames == { live[i].name : i \in 1..Len(live) }

\* C1: after a successful Add(name, content), HasSection(name) is true, and
\* an Add of the same name that follows it returns "section already exists",
\* writes nothing and leaves the file byte-identical.
C1_AddThenHasSection ==
    [][ /\ (last'.op = "Add" /\ last'.err = "nil")
            => HasSection(Read', last'.name)
        /\ (last.op = "Add" /\ last.err = "nil"
            /\ last'.op = "HasSection" /\ last'.name = last.name)
            => last'.has
        /\ (last.op = "Add" /\ last.err = "nil"
            /\ last'.op = "Add" /\ last'.name = last.name)
            => /\ last'.err = "exists"
               /\ last'.writes = 0
               /\ exists' = exists
               /\ data' = data ]_vars

\* a second Add of a live section was refused and left the file as it was
C1_Witness ==
    /\ last.op = "Add"
    /\ last.err = "exists"
    /\ last.name \in LiveNames
    /\ \E i \in 1..Len(live) :
         live[i].name = last.name /\ live[i].content # last.content
    /\ Read = last.before

\* C2: Delete(name) on a file without a start-marker line for name, absent
\* and empty files included, returns "section not found" and writes nothing:
\* the content is unchanged and an absent file stays absent.
C2_DeleteMissingSection ==
    (last.op = "Delete" /\ ~HasStartLine(last.before, last.name))
        => /\ last.err = "notfound"
           /\ last.writes = 0
           /\ Read = last.before
           /\ exists = last.existed

\* Delete of a section that is not there, on a file that holds blank-line
\* runs a rewrite would have collapsed
C2_Witness ==
    /\ last.op = "Delete"
    /\ last.err = "notfound"
    /\ last.existed
    /\ Contains(last.before, <<"\n", "\n", "\n">>)
    /\ Read = last.before


\* the section as Add writes it: start marker, trimmed content, end marker
Block(sectionName, content) ==
    StartMarker(sectionName) \o <<"\n">>
    \o TrimSpace(content) \o <<"\n">>
    \o EndMarker(sectionName) \o <<"\n">>

\* the lines of the content that begin with the start prefix
StartLines(content) ==
    SelectSeq(Lines(content), LAMBDA line : HasPrefix(line, SectionStartPrefix))

\* the number of start-marker lines of the section in the content
StartCount(content, sectionName) ==
    Cardinality({ i \in 1..Len(Lines(content)) :
                    TrimSpace(Lines(content)[i]) = StartMarker(sectionName) })

\* some line of the content is, after trimming, the end marker of the section
HasEndLine(content, sectionName) ==
    \E i \in 1..Len(Lines(content)) :
        TrimSpace(Lines(content)[i]) = EndMarker(sectionName)

InSeq(x, seq) == \E i \in 1..Len(seq) : seq[i] = x

\* C3: a successful Delete(name) of a section created by Add leaves every
\* other section created by Add (start marker line, content lines with their
\* blank-line runs, end marker line) in the file, contiguous and
\* byte-identical. The other sections are taken with a non-empty name, whose
\* markers end in no whitespace.
C3_DeletePreservesOtherSections ==
    (last.op = "Delete" /\ last.wasLive /\ last.err = "nil")
        => \A i \in 1..Len(live) :
              (/\ live[i].name # <<>>
               /\ Contains(last.before, Block(live[i].name, live[i].content)))
                  => Contains(Read, Block(live[i].name, live[i].content))

\* blank-line normalization of a content: runs of blank lines collapsed to
\* one, trailing blank lines trimmed, every line closed by one "\n"
RECURSIVE Collapse(_, _)
Collapse(lines, prevBlank) ==
    IF lines = <<>>
    THEN <<>>
    ELSE IF Head(lines) = <<>>
         THEN (IF prevBlank THEN <<>> ELSE <<Head(lines)>>)
              \o Collapse(Tail(lines), TRUE)
         ELSE <<Head(lines)>> \o Collapse(Tail(lines), FALSE)

RECURSIVE DropTrailingBlank(_)
DropTrailingBlank(lines) ==
    IF lines # <<>> /\ lines[Len(lines)] = <<>>
    THEN DropTrailingBlank(SubSeq(lines, 1, Len(lines) - 1))
    ELSE lines

RECURSIVE Join(_)
Join(lines) ==
    IF lines = <<>> THEN <<>> ELSE Head(lines) \o <<"\n">> \o Join(Tail(lines))

Normalize(content) == Join(DropTrailingBlank(Collapse(Lines(content), FALSE)))

\* C4: Add(name, content) on a file C without a section of that name,
\* followed by Delete(name), succeeds and leaves C up to blank-line
\* normalization only: no non-blank line of C is lost, added or altered.
C4_AddDeleteRoundTrip ==
    (last.op = "Delete" /\ last.prevAdd.valid)
        => /\ last.err = "nil"
           /\ Read = Normalize(last.prevAdd.before)

\* C5: from an absent or empty file, after Adds of distinctly named sections,
\* every Delete of an added section removes it, exactly the sections not yet
\* deleted remain, and once all are deleted the file is empty.
C5_AddAllDeleteAll ==
    (phase = "deleting" /\ last.op = "Delete" /\ last.wasLive)
        => /\ last.err = "nil"
           /\ last.name \notin LiveNames
           /\ StartLines(Read) = [i \in 1..Len(live) |-> StartMarker(live[i].name)]
           /\ live = <<>> => Read = <<>>

\* C6: a successful Add keeps the previous content as a prefix and appends,
\* after one blank line when the previous content is non-empty, the start
\* marker line, the lines of the trimmed content closed by one newline, and
\* the end marker line; on an empty or absent file the result begins with
\* the start marker.
C6_AddAppendsSection ==
    (last.op = "Add" /\ last.err = "nil")
        => /\ exists
           /\ HasPrefix(data, last.before)
           /\ Lines(data) =
                Lines(last.before)
                \o (IF last.before # <<>> THEN << <<>> >> ELSE <<>>)
                \o <<StartMarker(last.name)>>
                \o Lines(TrimSpace(last.content) \o <<"\n">>)
                \o <<EndMarker(last.name)>>
           /\ HasSuffix(data, EndMarker(last.name) \o <<"\n">>)
           /\ last.before = <<>> => HasPrefix(data, StartMarker(last.name) \o <<"\n">>)

\* an Add, to a file that did not end in a newline, of a content that had
\* whitespace around it
C6_Witness ==
    /\ last.op = "Add"
    /\ last.err = "nil"
    /\ last.before # <<>>
    /\ ~HasSuffix(last.before, <<"\n">>)
    /\ TrimSpace(last.content) # last.content
    /\ data # last.before

\* C7: HasSection(name) is true exactly when a line of the file is the start
\* marker of name (the names are taken non-empty); with "Golang" the only
\* section, HasSection("Go") is false and Add("Go", c) succeeds.
C7_HasSectionExactLine ==
    /\ (last.op = "HasSection" /\ last.name # <<>>)
        => (last.has <=> HasStartLine(last.before, last.name))
    /\ (/\ last.name = <<"G", "o">>
        /\ StartLines(last.before) = <<StartMarker(<<"G", "o", "l", "a", "n", "g">>)>>)
        => /\ last.op = "HasSection" => ~last.has
           /\ last.op = "Add" => last.err = "nil"

\* C8: AddPatterns ignores the inputs that are empty after trimming, returns
\* in skipped and not in added a pattern whose wrapped section already
\* exists, leaving its start marker once in the file, and returns every
\* other pattern in added with exactly one wrapped section whose single
\* content line is the pattern.
C8_AddPatternsResults ==
    last.op = "AddPatterns"
        => /\ \A k \in 1..Len(last.patterns) :
                LET pattern == TrimSpace(last.patterns[k])
                    sectionName == IgnoredSectionPrefix \o pattern
                IN  IF pattern = <<>>
                    THEN ~InSeq(pattern, last.added) /\ ~InSeq(pattern, last.skipped)
                    ELSE IF HasStartLine(last.before, sectionName)
                    THEN /\ InSeq(pattern, last.skipped)
                         /\ ~InSeq(pattern, last.added)
                         /\ StartCount(Read, sectionName) = 1
                    ELSE /\ InSeq(pattern, last.added)
                         /\ StartCount(Read, sectionName) = 1
                         /\ Contains(Read, Block(sectionName, pattern))
           /\ (\A k \in 1..Len(last.patterns) : TrimSpace(last.patterns[k]) = <<>>)
                => last.writes = 0 /\ Read = last.before

\* C9: RemovePattern of a pattern that is empty after trimming returns an
\* error without reading or writing the file; for any other pattern it
\* returns and leaves what Delete("ignored/" + trimmed pattern) does, so the
\* section AddPatterns wrote for the pattern goes with both its markers.
C9_RemovePatternDelegates ==
    last.op = "RemovePattern"
        => LET pattern == TrimSpace(last.patterns[1])
               sectionName == IgnoredSectionPrefix \o pattern
               deleted == Delete(last.before, sectionName)
           IN  IF pattern = <<>>
               THEN /\ last.err = "empty"
                    /\ last.reads = 0
                    /\ last.writes = 0
                    /\ Read = last.before
                    /\ exists = last.existed
               ELSE /\ last.err = deleted.err
                    /\ last.writes = deleted.writes
                    /\ Read = deleted.out
                    /\ Contains(last.before, Block(sectionName, pattern))
                        => /\ last.err = "nil"
                           /\ ~HasStartLine(Read, sectionName)
                           /\ ~HasEndLine(Read, sectionName)

\* a pattern given with whitespace around it was removed with its section
C9_Witness ==
    /\ last.op = "RemovePattern"
    /\ last.err = "nil"
    /\ TrimSpace(last.patterns[1]) # last.patterns[1]
    /\ Contains(last.before,
                Block(IgnoredSectionPrefix \o TrimSpace(last.patterns[1]),
                      TrimSpace(last.patterns[1])))
    /\ Read # last.before

-----------------------------------------------------------------------------
(* Properties of the source resolver.                                       *)

\* C10: ListBySource returns no error and a map with one entry per configured
\* source: the error and no files for a source whose List failed, the files
\* and a nil error for a source whose List succeeded; every source is
\* queried, whichever sources failed before it.
C10_ListBySourceAllSources ==
    smLast.op = "ListBySource"
        => /\ smLast.err = "nil"
           /\ DOMAIN smLast.result = SourceSet
           /\ smLast.queried = sources
           /\ \A s \in SourceSet :
                IF smLast.env[s].err # "nil"
                THEN /\ smLast.result[s].Error = smLast.env[s].err
                     /\ smLast.result[s].Files = <<>>
                ELSE /\ smLast.result[s].Error = "nil"
                     /\ smLast.result[s].Files = smLast.env[s].files

\* the first source failed and a later one returned its files
C10_Witness ==
    /\ smLast.op = "ListBySource"
    /\ smLast.env[sources[1]].err # "nil"
    /\ smLast.env[sources[Len(sources)]].err = "nil"
    /\ smLast.result[sources[1]].Error # "nil"
    /\ Len(smLast.result[sources[Len(sources)]].Files) = 2

-----------------------------------------------------------------------------
(* The aggregated listing and the lookups of the SourceManager.             *)

\* the lower-cased names of the local listing of the world
LocalLower ==
    { ToLower(world[LocalName].files[i].Name) : i \in 1..Len(world[LocalName].files) }

\* the position of a source in the configured order
PosOf(source) == CHOOSE i \in 1..Len(sources) : sources[i] = source

\* C11: List() returns the local entries first, then the entries of each
\* remote in configured order, and no remote entry whose name equals a local
\* name case-insensitively; a name held by Local and by a remote appears
\* once, as the local entry.
C11_ListLocalFirstShadowing ==
    (smLast.op = "List" /\ smLast.err = "nil")
        => LET files == smLast.files
               localFiles == world[LocalName].files
               n == Len(localFiles)
           IN  /\ Len(files) >= n
               /\ SubSeq(files, 1, n) = localFiles
               /\ \A i \in (n + 1)..Len(files) :
                     /\ files[i].Source # LocalName
                     /\ ToLower(files[i].Name) \notin LocalLower
               /\ \A i, j \in (n + 1)..Len(files) :
                     i < j => PosOf(files[i].Source) <= PosOf(files[j].Source)
               /\ \A k \in 2..Len(sources) :
                     world[sources[k]].err = "nil"
                         => SelectSeq(files, LAMBDA f : f.Source = sources[k])
                            = SelectSeq(world[sources[k]].files,
                                        LAMBDA f : ToLower(f.Name) \notin LocalLower)
               /\ \A i \in 1..n :
                     { j \in 1..Len(files) : files[j].Name = localFiles[i].Name } = {i}

\* Local holds "go" and "Rust", a remote lists "Go": List() returns the two
\* local entries and not the remote one
C11_Witness ==
    /\ smLast.op = "List"
    /\ smLast.err = "nil"
    /\ Len(world[LocalName].files) = 2
    /\ \E k \in 2..Len(sources) :
          /\ world[sources[k]].err = "nil"
          /\ Len(world[sources[k]].files) = 1
          /\ ToLower(world[sources[k]].files[1].Name) \in LocalLower
          /\ world[sources[k]].files[1].Name # world[LocalName].files[1].Name
    /\ \A i \in 1..Len(smLast.files) : smLast.files[i].Source = LocalName

\* the sources whose Get succeeds for the name of the last call
Succeeding == { i \in 1..Len(sources) :
                  SourceGet(sources[i], smLast.name, world[sources[i]]).err = "nil" }

\* C12: Get of an unqualified name queries Local and then the remotes in
\* configured order, each at most once, up to the first source that
\* succeeds, whose result it returns; a failing source of any kind never
\* stops the chain; when every source fails the error is the single
\* "not found in any source".
C12_GetFirstSuccess ==
    smLast.op = "Get"
        => /\ Len(smLast.queried) <= Len(sources)
           /\ \A i \in 1..Len(smLast.queried) :
                 smLast.queried[i] = Query(sources[i], smLast.name)
           /\ IF Succeeding = {}
              THEN /\ Len(smLast.queried) = Len(sources)
                   /\ smLast.err = "not found in any source"
              ELSE LET k == CHOOSE i \in Succeeding : \A j \in Succeeding : i <= j
                       got == SourceGet(sources[k], smLast.name, world[sources[k]])
                   IN  /\ Len(smLast.queried) = k
                       /\ smLast.err = "nil"
                       /\ smLast.file = got.file
                       /\ smLast.file.Source = sources[k]
                       /\ smLast.content = got.content

\* Local cannot list, GitHub fails on the content request, Toptal succeeds
C12_Witness ==
    /\ smLast.op = "Get"
    /\ Len(sources) = 3
    /\ world[LocalName].err # "nil"
    /\ world[GitHubName].err = "nil"
    /\ world[GitHubName].fetch # "nil"
    /\ SourceFind(GitHubName, smLast.name, world[GitHubName]).err = "nil"
    /\ smLast.err = "nil"
    /\ smLast.file.Source = ToptalName
    /\ Len(smLast.queried) = 3

\* the source that qualifies the name of the last GetAny call, and the rest
QualifierOf(name) ==
    { s \in DOMAIN SourcePrefixes : HasPrefix(name, SourcePrefixes[s] \o <<"/">>) }

RestOf(name) == SubSeq(name, Index(name, 1, <<"/">>) + 1, Len(name))

C14_GetFromSourceNoFallback ==
    smLast.op = "GetFromSource"
        => IF smLast.sourceName \in SourceSet
           THEN LET got == SourceGet(smLast.sourceName, smLast.name,
                                     world[smLast.sourceName])
                IN  /\ smLast.queried = <<Query(smLast.sourceName, smLast.name)>>
                    /\ smLast.err = got.err
                    /\ smLast.file = got.file
                    /\ smLast.content = got.content
           ELSE /\ smLast.err = "unknown source"
                /\ smLast.queried = <<>>
                /\ smLast.file = NoFile

\* GitHub is asked and fails while Toptal, after it, would have delivered
C14_Witness ==
    /\ smLast.op = "GetFromSource"
    /\ smLast.sourceName = GitHubName
    /\ Len(sources) = 3
    /\ SourceGet(ToptalName, smLast.name, world[ToptalName]).err = "nil"
    /\ smLast.err \notin {"nil", "unknown source"}
    /\ smLast.queried = <<Query(GitHubName, smLast.name)>>

-----------------------------------------------------------------------------
(* The GitHub client.                                                       *)

HTTPSScheme == <<"h", "t", "t", "p", "s", ":", "/", "/">>

\* s is non-empty and holds none of the characters
Plain(s, characters) == s # <<>> /\ \A i \in 1..Len(s) : s[i] \notin characters

\* the accepted forms of a repository URL and the pair each stands for:
\* https://host/owner/repo[.git][/] and user@host:owner/repo.git
AcceptedForm(url) ==
    LET body == TrimSuffix(TrimSuffix(TrimPrefix(url, HTTPSScheme), <<"/">>), GitSuffix)
        segments == Split(body, <<"/">>)
        halves == Split(TrimSuffix(url, GitSuffix), <<":">>)
        login == Split(halves[1], <<"@">>)
        path == Split(halves[2], <<"/">>)
    IN  IF HasPrefix(url, HTTPSScheme)
        THEN IF Len(segments) = 3 /\ \A i \in 1..3 : Plain(segments[i], {":", "@"})
             THEN [ok |-> TRUE, owner |-> segments[2], repo |-> segments[3]]
             ELSE [ok |-> FALSE, owner |-> <<>>, repo |-> <<>>]
        ELSE IF /\ HasSuffix(url, GitSuffix)
                /\ Len(halves) = 2
                /\ Len(login) = 2 /\ \A i \in 1..2 : Plain(login[i], {"/"})
                /\ Len(path) = 2 /\ \A i \in 1..2 : Plain(path[i], {"@"})
             THEN [ok |-> TRUE, owner |-> path[1], repo |-> path[2]]
             ELSE [ok |-> FALSE, owner |-> <<>>, repo |-> <<>>]

\* the URL names a repository on the host the client talks to
OnGitHub(url) ==
    HasPrefix(url, HTTPSScheme \o GitHubPath) \/ HasPrefix(url, GitHubSSH)

\* C15: a repository URL of an accepted form, https://host/owner/repo with
\* an optional ".git" and an optional trailing "/" or user@host:owner/repo.git,
\* parses to exactly its owner and its repo without ".git" (stated for the
\* URLs on the client's host).
C15_ParseRepoURL ==
    (clLast.op = "NewClient" /\ OnGitHub(clLast.url) /\ AcceptedForm(clLast.url).ok)
        => /\ clLast.err = "nil"
           /\ clLast.owner = AcceptedForm(clLast.url).owner
           /\ clLast.repo = AcceptedForm(clLast.url).repo

-----------------------------------------------------------------------------
(* The layout of the ignore file.                                           *)

\* the line is a start marker, an end marker, blank
IsStartLine(line) == HasPrefix(TrimSpace(line), SectionStartPrefix)
IsEndLine(line) == HasPrefix(TrimSpace(line), SectionEndPrefix)
IsBlank(line) == TrimSpace(line) = <<>>

\* the blank lines between an end marker line i and a start marker line j
\* that nothing but blank lines separate are at most one
OneBlankBetweenSections(lines) ==
    \A i, j \in 1..Len(lines) :
        (/\ i < j
         /\ IsEndLine(lines[i])
         /\ IsStartLine(lines[j])
         /\ \A k \in (i + 1)..(j - 1) : IsBlank(lines[k]))
            => j - i - 1 <= 1

\* every end marker begins a line: the content block before it ends in "\n"
EndMarkersOnOwnLine(content) ==
    \A p \in 1..(Len(content) - Len(SectionEndPrefix) + 1) :
        At(content, p, SectionEndPrefix) => (p = 1 \/ content[p - 1] = "\n")

\* C16: after Add and Delete calls on any initial ignore file, no more than
\* one blank line separates the end marker of a section from the start
\* marker of the next, and every content block ends with a newline right
\* before its end marker.
C16_BlankLinesBetweenSections ==
    (last.op \in {"Add", "Delete"} /\ last.err = "nil")
        => /\ OneBlankBetweenSections(Lines(Read))
           /\ EndMarkersOnOwnLine(Read)

-----------------------------------------------------------------------------
(* The section editor started on an empty ignore file, with contents that   *)
(* may hold a marker line.                                                  *)

\* section contents: those of Contents and a line that reads as a start
\* marker
MarkerContents == Contents \cup { StartMarker(<<"G", "o">>) }

InitEmpty ==
    /\ exists \in BOOLEAN
    /\ data = <<>>
    /\ last = [op |-> "none", name |-> <<>>, content |-> <<>>, patterns |-> <<>>,
               err |-> "nil", before |-> <<>>, existed |-> FALSE,
               reads |-> 0, writes |-> 0, has |-> FALSE,
               added |-> <<>>, skipped |-> <<>>, prevAdd |-> NoAdd, wasLive |-> FALSE]
    /\ live = <<>>
    /\ phase = "adding"
    /\ sources = <<LocalName, GitHubName>>
    /\ world = <<>>
    /\ smLast = [op |-> "none"]
    /\ client = NoClient
    /\ clLast = [op |-> "none"]
    /\ dir = NoDir
    /\ lsLast = [op |-> "none"]
    /\ procs = NoProcs
    /\ lost = FALSE
    /\ cmdLast = [op |-> "none"]

NextFromEmpty ==
    \/ \E sectionName \in Names : HasSectionCall(sectionName)
    \/ \E sectionName \in Names, content \in MarkerContents :
           AddCall(sectionName, content)
    \/ \E sectionName \in Names : DeleteCall(sectionName)
    \/ \E patterns \in PatternLists : AddPatternsCall(patterns)
    \/ \E pattern \in Patterns : RemovePatternCall(pattern)

SpecFromEmpty == InitEmpty /\ [][NextFromEmpty]_vars

\* the name a start or end marker line carries
NameOfLine(line, prefix) == TrimSpace(TrimPrefix(TrimSpace(line), prefix))

\* C17: in a file reached from the empty file by Add, Delete, AddPatterns
\* and RemovePattern, no two start marker lines carry the same name, and
\* every start marker line is followed by the end marker line of its name
\* before any other start marker line: sections neither nest nor overlap.
C17_SectionsUniqueWellFormed ==
    LET lines == Lines(Read)
    IN  /\ \A i, j \in 1..Len(lines) :
              (i # j /\ IsStartLine(lines[i]) /\ IsStartLine(lines[j]))
                  => NameOfLine(lines[i], SectionStartPrefix)
                     # NameOfLine(lines[j], SectionStartPrefix)
        /\ \A i \in 1..Len(lines) :
              IsStartLine(lines[i])
                  => \E j \in (i + 1)..Len(lines) :
                        /\ IsEndLine(lines[j])
                        /\ NameOfLine(lines[j], SectionEndPrefix)
                           = NameOfLine(lines[i], SectionStartPrefix)
                        /\ \A k \in (i + 1)..(j - 1) :
                              ~IsStartLine(lines[k]) /\ ~IsEndLine(lines[k])

\* C18: ListSections returns the names of the start marker lines from top
\* to bottom, duplicates included; on a file built from the empty file by
\* successful Add calls and then Delete calls it is the sequence of the
\* names added and not deleted, in the order they were added.
C18_ListSectionsOrder ==
    LET starts == SelectSeq(Lines(Read), IsStartLine)
    IN  /\ ListSections(Read)
           = [i \in 1..Len(starts) |-> NameOfLine(starts[i], SectionStartPrefix)]
        /\ phase \in {"adding", "deleting"}
              => ListSections(Read) = [i \in 1..Len(live) |-> live[i].name]

-----------------------------------------------------------------------------
(* The local source.                                                        *)

\* the templates of the directory: the non-directory entries whose name
\* ends in ".gitignore" whatever the case, each named by its filename
\* without those last characters
Templates ==
    LET kept == SelectSeq(dir.entries, LAMBDA entry :
                    /\ ~entry.isDir
                    /\ HasSuffix(ToLower(entry.name), GitignoreSuffix))
    IN  [i \in 1..Len(kept) |->
            SubSeq(kept[i].name, 1, Len(kept[i].name) - Len(GitignoreSuffix))]

\* C19: List() of a missing directory is empty without error; of a
\* directory it is one entry per non-directory file whose name ends in
\* ".gitignore" compared case-insensitively, named by the filename without
\* the extension, with empty category and source "local"; Find and Get match
\* that name case-insensitively and return it with its case preserved.
C19_LocalListAndFind ==
    /\ (lsLast.op = "List" /\ dir.state = "missing")
          => lsLast.err = "nil" /\ lsLast.files = <<>>
    /\ (lsLast.op = "List" /\ dir.state = "ok")
          => /\ lsLast.err = "nil"
             /\ Len(lsLast.files) = Len(Templates)
             /\ \A i \in 1..Len(lsLast.files) :
                   /\ lsLast.files[i].Name = Templates[i]
                   /\ lsLast.files[i].Category = <<>>
                   /\ lsLast.files[i].Source = LocalName
    /\ (/\ dir.state = "ok"
        /\ \/ lsLast.op = "Find"
           \/ lsLast.op = "Get" /\ lsLast.read = "nil")
          => IF \E i \in 1..Len(Templates) : ToLower(Templates[i]) = ToLower(lsLast.name)
             THEN /\ lsLast.err = "nil"
                  /\ ToLower(lsLast.file.Name) = ToLower(lsLast.name)
                  /\ \E i \in 1..Len(Templates) : Templates[i] = lsLast.file.Name
             ELSE lsLast.err # "nil"

\* C20: every call of ListGitignoreFiles first requests the branch "main";
\* it requests "master" only when that first request returned 404, at most
\* once in the call; a transport error or a status other than 200 on the
\* request the call settles on is returned as an error, with no further
\* request.
C20_BranchFallback ==
    clLast.op = "ListGitignoreFiles"
        => /\ clLast.requests[1] = MainBranch
           /\ Len(clLast.requests) <= 2
           /\ (Len(clLast.requests) = 2) <=> (clLast.resp1.status = 404)
           /\ Len(clLast.requests) = 2 => clLast.requests[2] = MasterBranch
           /\ clLast.resp2.status # 200 => clLast.err # "nil"

\* C21: GitHubSource.Get requests the raw content from the branch on which
\* its tree listing succeeded, "master" when the listing fell back and
\* "main" when the request for "main" succeeded, whatever calls the client
\* served before.
C21_ContentFromListedBranch ==
    (clLast.op = "Get" /\ clLast.fetched # <<>>)
        => /\ clLast.resp2.status = 200
           /\ clLast.fetched = clLast.requests[Len(clLast.requests)]
           /\ clLast.fetched = client.branch

\* a Get on a client that an earlier call left on "main", whose listing
\* fell back to "master" and whose content was fetched
C21_Witness ==
    /\ clLast.op = "Get"
    /\ clLast.requests = <<MainBranch, MasterBranch>>
    /\ clLast.fetched = MasterBranch
    /\ clLast.err = "nil"

-----------------------------------------------------------------------------
(* Lookups by bare name and by category/name.                               *)

\* the sources of the chain whose listing holds a template of that bare
\* name, compared in lower case
BareSources(name) ==
    { s \in SourceSet :
        /\ world[s].err = "nil"
        /\ \E i \in 1..Len(world[s].files) :
              ToLower(world[s].files[i].Name) = ToLower(name) }

\* C22: an unqualified Find or Get returns a template matched by
\* category/name only if no source of the chain holds a template of that
\* bare name; when some source does, the template returned has that bare
\* name.
C22_BareNameBeforeCategory ==
    (smLast.op \in {"Find", "Get"} /\ BareSources(smLast.name) # {})
        => /\ smLast.err = "nil"
           /\ ToLower(smLast.file.Name) = ToLower(smLast.name)

\* the entries of a listing that carry the tag of a source
FromSource(files, source) == SelectSeq(files, LAMBDA f : f.Source = source)

\* C23: when the local listing succeeds, List() succeeds whichever remotes
\* fail: every remote is asked, a failed remote contributes nothing, and
\* every other remote contributes its entries that no local name shadows.
C23_ListSkipsFailedRemotes ==
    (smLast.op = "List" /\ world[LocalName].err = "nil")
        => /\ smLast.err = "nil"
           /\ smLast.queried = sources
           /\ FromSource(smLast.files, LocalName) = world[LocalName].files
           /\ \A k \in 2..Len(sources) :
                 FromSource(smLast.files, sources[k])
                    = IF world[sources[k]].err # "nil"
                      THEN <<>>
                      ELSE SelectSeq(world[sources[k]].files,
                                     LAMBDA f : ToLower(f.Name) \notin LocalLower)

\* the first remote fails and the second one's entries are listed
C23_Witness ==
    /\ smLast.op = "List"
    /\ Len(sources) = 3
    /\ world[LocalName].err = "nil"
    /\ world[sources[2]].err # "nil"
    /\ world[sources[3]].err = "nil"
    /\ FromSource(smLast.files, sources[3]) # <<>>
    /\ smLast.err = "nil"

\* C30: List() fails exactly when the local listing fails; it then asks no
\* remote and returns no entry; failures of remotes alone leave it
\* succeeding.
C30_ListFailsIffLocalFails ==
    smLast.op = "List"
        => /\ (smLast.err # "nil") <=> (world[LocalName].err # "nil")
           /\ smLast.err # "nil"
                 => smLast.files = <<>> /\ smLast.queried = <<LocalName>>

\* the local listing fails while a remote holds templates: List() fails
\* with nothing listed
C30_Witness ==
    /\ smLast.op = "List"
    /\ world[LocalName].err # "nil"
    /\ \E k \in 2..Len(sources) :
          world[sources[k]].err = "nil" /\ world[sources[k]].files # <<>>
    /\ smLast.err # "nil"
    /\ smLast.files = <<>>

-----------------------------------------------------------------------------
(* AddPatterns under file errors.                                           *)

\* the file after the sections of the patterns are added in order
RECURSIVE WithPatterns(_, _)
WithPatterns(content, added) ==
    IF added = <<>>
    THEN content
    ELSE WithPatterns(AddBuild(content, IgnoredSectionPrefix \o Head(added), Head(added)),
                      Tail(added))

\* the non-blank patterns among the first k of a list, trimmed
TrimmedBefore(patterns, k) ==
    SelectSeq([i \in 1..k |-> TrimSpace(patterns[i])], LAMBDA p : p # <<>>)

-----------------------------------------------------------------------------
(* Processes editing the file at once.                                      *)

\* C25: Add and Delete are unlocked read-modify-writes: the write of a
\* process stores what it computed from the content it read earlier, so a
\* section another process wrote in between is gone after it, and nothing
\* prevents the write; the file can lose a section this way and can hold
\* the same section name twice.
C25_UnlockedReadModifyWrite ==
    [][\A p \in Procs :
          /\ (procs[p].pc = "write" /\ procs'[p].pc = "idle")
                => /\ data' = AddBuild(procs[p].cur, procs[p].name, ProcContent)
                   /\ \A n \in StartNames(Read) \ StartNames(procs[p].cur) :
                         n # procs[p].name => n \notin StartNames(data')
                   /\ procs'[p].err = "nil"
          /\ (procs[p].pc = "rewrite" /\ procs'[p].pc = "idle")
                => /\ data' = Delete(procs[p].cur, procs[p].name).out
                   /\ \A n \in StartNames(Read) \ StartNames(procs[p].cur) :
                         n \notin StartNames(data')
                   /\ procs'[p].err = "nil"]_vars

\* both processes are back from their calls, a write has removed a section
\* of the file, and the file holds a section name twice
C25_Witness ==
    /\ \A p \in Procs : procs[p].pc = "idle" /\ procs[p].ops > 0
    /\ lost
    /\ \E n \in ProcNames : StartCount(Read, n) = 2

-----------------------------------------------------------------------------
(* The init command.                                                        *)

\* the section of the template a default type resolves to is in the content
TemplatePresent(templateType, content) ==
    LET got == GetAny(sources, templateType, world)
    IN  /\ got.err = "nil"
        /\ HasStartLine(content, SectionNameOf(got.file))

\* the elements of a sequence
Elems(seq) == { seq[i] : i \in 1..Len(seq) }

\* C26: init reports every default type whose template section is already
\* in the file as skipped, counts it, looks nothing up for it and, when all
\* are present, leaves the file as it was; its added count is the number of
\* sections it wrote.
C26_InitSkipsPresent ==
    cmdLast.op = "init"
        => /\ \A i \in 1..Len(cmdLast.types) :
                 TemplatePresent(cmdLast.types[i], cmdLast.before)
                    => /\ cmdLast.types[i] \in Elems(cmdLast.skipped)
                       /\ cmdLast.types[i] \notin Elems(cmdLast.fetched)
           /\ (\A i \in 1..Len(cmdLast.types) :
                  TemplatePresent(cmdLast.types[i], cmdLast.before))
                 => Read = cmdLast.before
           /\ cmdLast.addedCount = cmdLast.writes

\* the number of lines of a content that are the start marker of a pattern
PatternSections(content, pattern) ==
    Len(SelectSeq(ScanLines(content),
                  LAMBDA line : TrimSpace(line)
                                   = StartMarker(IgnoredSectionPrefix \o pattern)))

\* the number of times an element occurs in a sequence
Occurrences(seq, e) == Cardinality({ i \in 1..Len(seq) : seq[i] = e })

\* C27: a second AddPatterns with the list of the call just before writes
\* nothing, adds nothing and returns every non-blank trimmed pattern in
\* skipped; and in any call a pattern given several times is added once at
\* most, its other occurrences being skipped.
C27_AddPatternsIdempotent ==
    [][(last'.op = "AddPatterns" /\ last'.err = "nil")
          => /\ (last.op = "AddPatterns" /\ last.err = "nil"
                 /\ last'.patterns = last.patterns)
                   => /\ data' = data
                      /\ exists' = exists
                      /\ last'.writes = 0
                      /\ last'.added = <<>>
                      /\ last'.skipped
                            = TrimmedBefore(last'.patterns, Len(last'.patterns))
             /\ \A p \in Elems(TrimmedBefore(last'.patterns, Len(last'.patterns))) :
                   /\ Occurrences(last'.added, p) <= 1
                   /\ Occurrences(last'.added, p) + Occurrences(last'.skipped, p)
                         = Occurrences(TrimmedBefore(last'.patterns, Len(last'.patterns)), p)
                   /\ PatternSections(Read', p)
                         = PatternSections(Read, p) + Occurrences(last'.added, p)]_vars

\* the list holding a pattern twice was given twice: the second call
\* skipped its four patterns and the file holds each section once
C27_Witness ==
    /\ last.op = "AddPatterns"
    /\ last.err = "nil"
    /\ Len(last.patterns) = 4
    /\ last.added = <<>>
    /\ last.skipped = << <<"a">>, <<"a">>, <<"a", "b">>, <<"b">> >>
    /\ PatternSections(Read, <<"a">>) = 1
    /\ last.before = Read

-----------------------------------------------------------------------------
(* Add, HasSection and Delete on the same name.                             *)

\* C28: for every section name, the empty one included, a Delete(name)
\* that comes right after a successful Add(name, content) finds the
\* section, succeeds and leaves neither of its marker lines in the file.
C28_AddDeleteSymmetric ==
    (last.op = "Delete" /\ last.prevAdd.valid)
        => /\ last.err = "nil"
           /\ last.writes = 1
           /\ StartMarker(last.name) \notin Elems(Lines(Read))
           /\ EndMarker(last.name) \notin Elems(Lines(Read))

\* C29: on every file HasSection(name) is true, and Add(name, ...) refused
\* as already existing, exactly when Delete(name) finds the section and
\* succeeds: no name is both refused by Add and not found by Delete.
C29_DetectionAgreesWithDeletion ==
    /\ last.op = "HasSection"
          => (last.has <=> Delete(last.before, last.name).err = "nil")
    /\ last.op = "Add"
          => (last.err = "exists" <=> Delete(last.before, last.name).err = "nil")
    /\ last.op = "Delete"
          => (last.err = "nil" <=> HasSection(last.before, last.name))

====
